---- MODULE Spec2Model ----
(***************************************************************************)
(* A model of the read-only SQLite query engine: the b-tree walker         *)
(* (db/pager.rs), the cell accessors (db/page.rs), the SQL parser          *)
(* (db/sql/parser.rs, db/sql.rs) and the command executor (db/sql.rs).     *)
(* Text is modelled as TLA+ strings, read one character at a time.         *)
(***************************************************************************)
EXTENDS Integers, Sequences, FiniteSets, TLC

VARIABLES
    rows,        \* the rows stored in the table, in row-id order (ground truth)
    pages,       \* the database file as written: page number -> decoded page
    bad,         \* damage: page numbers whose read or decode fails
    short,       \* damage: row-ids whose record lacks its last column
    blobs,       \* row-ids whose name column holds a BLOB
    schemas,     \* DBInfo.schemas: the schema catalog
    use_cache,   \* Pager.use_cache
    page_cache,  \* Pager.page_cache (its key set; page contents never change)
    op,          \* the last operation and its input
    out          \* what the last operation returned

vars == <<rows, pages, bad, short, blobs, schemas, use_cache, page_cache, op, out>>

-----------------------------------------------------------------------------
(* Bounds of the model *)

MaxRowId == 3
MaxRows == 3
MaxCells == 2
MaxDepth == 3
MaxIndexDepth == 2
ExecDepth == 2
MaxSerial == 140

-----------------------------------------------------------------------------
(* Text: characters, case folding, byte order, decimal rendering *)

UpperChars == "ABCDEFGHIJKLMNOPQRSTUVWXYZ"
LowerChars == "abcdefghijklmnopqrstuvwxyz"
DigitChars == "0123456789"
\* the characters of the model in ascending byte order
ByteOrder == "\t\n\r \"'()*+,-0123456789;=ABCDEFGHIJKLMNOPQRSTUVWXYZ_abcdefghijklmnopqrstuvwxyz"

CharAt(s, i) == SubSeq(s, i, i)

RECURSIVE IndexOf(_, _, _)
\* position of character c in s at or after i, 0 when absent
IndexOf(s, c, i) ==
    IF i > Len(s) THEN 0
    ELSE IF CharAt(s, i) = c THEN i
    ELSE IndexOf(s, c, i + 1)

IsIn(c, s) == IndexOf(s, c, 1) # 0

CharSet == { CharAt(ByteOrder, i) : i \in 1..Len(ByteOrder) }

\* char::to_lowercase, as a table over the characters of the model
LowerOf ==
    [c \in CharSet |->
        LET k == IndexOf(UpperChars, c, 1)
        IN  IF k = 0 THEN c ELSE CharAt(LowerChars, k)]

\* the byte order of the characters of the model
ByteRank == [c \in CharSet |-> IndexOf(ByteOrder, c, 1)]

LowerChar(c) == LowerOf[c]

RECURSIVE ToLowercase(_)
\* str::to_lowercase
ToLowercase(s) ==
    IF Len(s) = 0 THEN ""
    ELSE LowerChar(CharAt(s, 1)) \o ToLowercase(Tail(s))

RECURSIVE StrLess(_, _)
\* the order of Rust strings: bytewise lexicographic
StrLess(a, b) ==
    IF Len(b) = 0 THEN FALSE
    ELSE IF Len(a) = 0 THEN TRUE
    ELSE LET ca == ByteRank[CharAt(a, 1)]
             cb == ByteRank[CharAt(b, 1)]
         IN  IF ca # cb THEN ca < cb ELSE StrLess(Tail(a), Tail(b))

StrGe(a, b) == ~StrLess(a, b)
StrGt(a, b) == StrLess(b, a)

RECURSIVE NatToString(_)
NatToString(n) ==
    IF n < 10 THEN CharAt(DigitChars, n + 1)
    ELSE NatToString(n \div 10) \o CharAt(DigitChars, (n % 10) + 1)

\* i64::to_string
IntToString(n) == IF n < 0 THEN "-" \o NatToString(0 - n) ELSE NatToString(n)

RECURSIVE ParseDigits(_, _)
\* value of a run of decimal digits, -1 when a character is no digit
ParseDigits(s, acc) ==
    IF Len(s) = 0 THEN acc
    ELSE LET d == IndexOf(DigitChars, CharAt(s, 1), 1)
         IN  IF d = 0 THEN -1 ELSE ParseDigits(Tail(s), acc * 10 + (d - 1))

\* str::parse::<u64>: an optional '+', then one or more digits
ParseU64(s) ==
    LET body == IF Len(s) > 0 /\ CharAt(s, 1) = "+" THEN Tail(s) ELSE s
        v == IF Len(body) = 0 THEN -1 ELSE ParseDigits(body, 0)
    IN  [ok |-> v >= 0, v |-> v]

-----------------------------------------------------------------------------
(* Column values and cells (db/page.rs) *)

CText(s) == [t |-> "Text", s |-> s, i |-> 0]
CInt(n) == [t |-> "Int", s |-> "", i |-> n]
CNull == [t |-> "Null", s |-> "", i |-> 0]
CBlob == [t |-> "Blob", s |-> "", i |-> 0]

\* impl Display for ColumnContent
to_string(c) ==
    CASE c.t = "Text" -> c.s
      [] c.t = "Int" -> IntToString(c.i)
      [] OTHER -> ""

\* Result<ColumnContent>: a value, an error, or no result because the call panicked
Ok(v) == [ok |-> TRUE, panic |-> FALSE, v |-> v]
Err == [ok |-> FALSE, panic |-> FALSE, v |-> CNull]
Panicked == [ok |-> FALSE, panic |-> TRUE, v |-> CNull]

\* Record::column: the decoded value of column column_index of a record; a column
\* of a type other than text, integer and NULL is unimplemented!()
Record_column(record, column_index) ==
    IF column_index + 1 > Len(record) THEN Err
    ELSE IF record[column_index + 1].t \notin {"Text", "Int", "Null"} THEN Panicked
    ELSE Ok(record[column_index + 1])

\* TableLeafCell::column
TableLeafCell_column(cell, column_index, primary_key_column) ==
    IF column_index = primary_key_column THEN Ok(CInt(cell.row_id))
    ELSE Record_column(cell.record, column_index)

\* IndexLeafCell::key and IndexInteriorCell::key
IndexCell_key(cell) == Record_column(cell.record, 0)

\* IndexLeafCell::row_id and IndexInteriorCell::row_id
IndexCell_row_id(cell) == Record_column(cell.record, 1)

NoPage == 0

TableLeafCell(row_id, record) ==
    [kind |-> "TableLeaf", row_id |-> row_id, left_child_page |-> NoPage, record |-> record]
TableInteriorCell(left_child_page, row_id) ==
    [kind |-> "TableInterior", row_id |-> row_id, left_child_page |-> left_child_page,
     record |-> << >>]
IndexLeafCell(record) ==
    [kind |-> "IndexLeaf", row_id |-> 0, left_child_page |-> NoPage, record |-> record]
IndexInteriorCell(left_child_page, record) ==
    [kind |-> "IndexInterior", row_id |-> 0, left_child_page |-> left_child_page,
     record |-> record]

\* struct Page: rightmost_pointer is NoPage for None
Page(page_type, cells, rightmost_pointer) ==
    [page_type |-> page_type, n_cells |-> Len(cells),
     rightmost_pointer |-> rightmost_pointer, cells |-> cells]

-----------------------------------------------------------------------------
(* Pager (db/pager.rs) *)

\* the page Page::load decodes at page number num: the records of the rows in
\* pg.short come out one column short, those of the rows in pg.blobs hold a BLOB
\* in the name column
Decoded(pg, num) ==
    LET cells == pages[num].cells
        Cut(cell) ==
            IF cell.kind = "TableLeaf" /\ cell.row_id \in pg.short
            THEN [cell EXCEPT !.record = SubSeq(cell.record, 1, Len(cell.record) - 1)]
            ELSE IF cell.kind = "TableLeaf" /\ cell.row_id \in pg.blobs
            THEN [cell EXCEPT !.record[2] = CBlob]
            ELSE cell
    IN  [pages[num] EXCEPT !.cells = [i \in 1..Len(cells) |-> Cut(cells[i])]]

\* Pager::load_page: the read fails for a page outside the file or a damaged one
load_page(pg, num) ==
    IF num \in DOMAIN pages /\ num \notin pg.bad
    THEN [ok |-> TRUE, page |-> Decoded(pg, num)]
    ELSE [ok |-> FALSE, page |-> Page("None", << >>, NoPage)]

\* a cache that answers with the page it holds under its smallest key
cache_get_first(pg, num) ==
    Decoded(pg, CHOOSE n \in pg.page_cache : \A k \in pg.page_cache : n <= k)

\* `self.page_cache.get(&num)` on a number in the cache: the clone of the page
\* load_page returned when it was inserted, which is the page the file holds
cache_get(pg, num) == Decoded(pg, num)

\* Pager::get_page on the pager state pg =
\* [bad, short, blobs, use_cache, page_cache, fetched, loaded]
\* (fetched: the page numbers get_page was called with; loaded: those read from the file)
get_page(pg, num) ==
    LET called == [pg EXCEPT !.fetched = Append(@, num)]
    IN  IF ~pg.use_cache
        THEN LET l == load_page(pg, num)
             IN  [ok |-> l.ok, page |-> l.page,
                  pager |-> [called EXCEPT !.loaded = Append(@, num)]]
        ELSE IF num \in pg.page_cache
        THEN [ok |-> TRUE, page |-> cache_get(pg, num), pager |-> called]
        ELSE LET l == load_page(pg, num)
             IN  [ok |-> l.ok, page |-> l.page,
                  pager |-> [called EXCEPT !.loaded = Append(@, num),
                                           !.page_cache = IF l.ok THEN @ \cup {num} ELSE @]]

\* struct CellFilter; NoFilter stands for Option::None
CellFilter(index_root_page, col_i, val, primary_key_col_i) ==
    [some |-> TRUE, index_root_page |-> index_root_page, col_i |-> col_i, val |-> val,
     primary_key_col_i |-> primary_key_col_i]
NoFilter == [some |-> FALSE, index_root_page |-> NoPage, col_i |-> 0, val |-> "",
             primary_key_col_i |-> 0]

\* the walk ended by an error of its own, and by the failure r of a call it made
Fail(st) == [st EXCEPT !.ok = FALSE]
FailWith(st, r) == [st EXCEPT !.ok = FALSE, !.panic = r.panic]

RECURSIVE load_page_cells(_, _, _)
RECURSIVE CellLoop(_, _, _, _)
RECURSIVE TableInteriorArm(_, _, _, _, _)
RECURSIVE IndexLeafArm(_, _, _)
RECURSIVE IndexInteriorArm(_, _, _, _, _)

\* the walk state st = [ok, panic, brk, cells, table_root_page, pager]

\* the match arm Cell::TableLeaf
TableLeafArm(st, cell, f) ==
    IF f.some
    THEN LET record_val == TableLeafCell_column(cell, f.col_i, f.primary_key_col_i)
         IN  IF ~record_val.ok THEN FailWith(st, record_val)
             ELSE IF f.val # ToLowercase(to_string(record_val.v)) THEN st
             ELSE [st EXCEPT !.cells = Append(@, cell)]
    ELSE [st EXCEPT !.cells = Append(@, cell)]

\* after the last cell of an interior page: descend into rightmost_pointer
Rightmost(st, page, i, f) ==
    IF i = page.n_cells /\ page.rightmost_pointer # NoPage
    THEN load_page_cells(st, page.rightmost_pointer, f)
    ELSE st

\* the match arm Cell::TableInterior
TableInteriorArm(st, page, i, cell, f) ==
    IF f.some /\ f.col_i = f.primary_key_col_i
    THEN \* filtering by row_id
         LET searched_row_id == ParseU64(f.val)
         IN  IF ~searched_row_id.ok THEN Fail(st)
             ELSE LET s1 == IF cell.row_id >= searched_row_id.v
                            THEN load_page_cells(st, cell.left_child_page, f)
                            ELSE st
                  IN  IF ~s1.ok THEN s1
                      ELSE IF cell.row_id > searched_row_id.v THEN [s1 EXCEPT !.brk = TRUE]
                      ELSE Rightmost(s1, page, i, f)
    ELSE \* full table scan
         LET s1 == load_page_cells(st, cell.left_child_page, f)
         IN  IF ~s1.ok THEN s1 ELSE Rightmost(s1, page, i, f)

\* the primary-key probe an index cell launches from the table root
RowIdProbe(st, cell, f) ==
    LET row_id == IndexCell_row_id(cell)
    IN  IF ~row_id.ok THEN FailWith(st, row_id)
        ELSE load_page_cells(st, st.table_root_page,
                 [f EXCEPT !.col_i = f.primary_key_col_i, !.val = to_string(row_id.v)])

\* the match arm Cell::IndexLeaf
IndexLeafArm(st, cell, f) ==
    IF f.some
    THEN LET key == IndexCell_key(cell)
         IN  IF ~key.ok THEN FailWith(st, key)
             ELSE IF f.val = to_string(key.v) THEN RowIdProbe(st, cell, f)
             ELSE st
    ELSE st

\* the match arm Cell::IndexInterior
IndexInteriorArm(st, page, i, cell, f) ==
    IF f.some
    THEN LET key == IndexCell_key(cell)
         IN  IF ~key.ok THEN FailWith(st, key)
             ELSE IF StrGe(to_string(key.v), f.val)
             THEN LET s1 == IF to_string(key.v) = f.val THEN RowIdProbe(st, cell, f) ELSE st
                      s2 == IF ~s1.ok THEN s1
                            ELSE load_page_cells(s1, cell.left_child_page, f)
                  IN  IF ~s2.ok THEN s2
                      ELSE IF StrGt(to_string(key.v), f.val) THEN [s2 EXCEPT !.brk = TRUE]
                      ELSE Rightmost(s2, page, i, f)
             ELSE \* skipping everything lesser than the searched value
                  st
    ELSE st

\* the loop over page.cells, from cell i (1-based) on
CellLoop(st, page, i, f) ==
    IF i > Len(page.cells) THEN st
    ELSE LET cell == page.cells[i]
             s1 == CASE cell.kind = "TableLeaf" -> TableLeafArm(st, cell, f)
                     [] cell.kind = "TableInterior" -> TableInteriorArm(st, page, i, cell, f)
                     [] cell.kind = "IndexLeaf" -> IndexLeafArm(st, cell, f)
                     [] OTHER -> IndexInteriorArm(st, page, i, cell, f)
         IN  IF ~s1.ok THEN s1
             ELSE IF s1.brk THEN [s1 EXCEPT !.brk = FALSE]
             ELSE CellLoop(s1, page, i + 1, f)

\* Tree::load_page_cells
load_page_cells(st, num, f) ==
    LET g == get_page(st.pager, num)
    IN  IF ~g.ok THEN [st EXCEPT !.ok = FALSE, !.pager = g.pager]
        ELSE CellLoop([st EXCEPT !.pager = g.pager], g.page, 1, f)

\* what Tree::cells hands to its caller: the cells, or the error alone
TreeResult(st) ==
    [ok |-> st.ok, panic |-> st.panic, cells |-> IF st.ok THEN st.cells ELSE << >>,
     pager |-> st.pager]

\* Tree::new followed by Tree::cells, on the pager
\* [bad, short, blobs, use_cache, page_cache]
Tree_cells(pager, page, filter) ==
    LET indexed == filter.some /\ filter.index_root_page # NoPage
        root_page == IF indexed THEN filter.index_root_page ELSE page
        st == [ok |-> TRUE, panic |-> FALSE, brk |-> FALSE, cells |-> << >>,
               table_root_page |-> page,
               pager |-> [bad |-> pager.bad, short |-> pager.short, blobs |-> pager.blobs,
                          use_cache |-> IF indexed THEN TRUE ELSE pager.use_cache,
                          page_cache |-> pager.page_cache,
                          fetched |-> << >>, loaded |-> << >>]]
    IN  TreeResult(load_page_cells(st, root_page, filter))

-----------------------------------------------------------------------------
(* The SQL parser (db/sql/parser.rs): nom combinators over the input text.   *)
(* A parse result is [ok, rem, v]: success, the unconsumed input, the value.  *)
(* A sequence of parsers joined by `?` is a chain of operators, each taking   *)
(* the result of the one before it.                                           *)

Drop(s, n) == SubSeq(s, n + 1, Len(s))
Chars(s) == { CharAt(s, i) : i \in 1..Len(s) }

\* char::is_alphanumeric on the characters of the model
Alphanumeric == Chars(UpperChars) \cup Chars(LowerChars) \cup Chars(DigitChars)
FieldChars == Alphanumeric \cup {"_"}
QuotedFieldChars == FieldChars \cup {" "}
QuoteChars == {"\"", "'"}
SpaceChars == {" ", "\t"}
MultispaceChars == {" ", "\t", "\r", "\n"}

PErr == [ok |-> FALSE, rem |-> "", v |-> ""]
POk(rem, v) == [ok |-> TRUE, rem |-> rem, v |-> v]

\* nom alt of two parsers, given their results on the same input
Alt(a, b) == IF a.ok THEN a ELSE b

RECURSIVE PrefixLen(_, _, _)
\* the number of leading characters of s, after the first n, that are in class
PrefixLen(s, class, n) ==
    IF n < Len(s) /\ CharAt(s, n + 1) \in class THEN PrefixLen(s, class, n + 1) ELSE n

\* the first n characters of s taken
Taken(s, n) == POk(Drop(s, n), SubSeq(s, 1, n))
NonEmpty(r) == IF r.v = "" THEN PErr ELSE r

\* nom take_while1
take_while1(class, s) == NonEmpty(Taken(s, PrefixLen(s, class, 0)))

\* nom space0 / multispace0 (class says which)
space0(class, s) == Taken(s, PrefixLen(s, class, 0))

\* nom space1 / multispace1
space1(class, s) == take_while1(class, s)

\* nom tag
tag(t, s) ==
    IF Len(s) >= Len(t) /\ SubSeq(s, 1, Len(t)) = t THEN POk(Drop(s, Len(t)), t) ELSE PErr

\* nom tag_no_case
tag_no_case(t, s) ==
    IF Len(s) >= Len(t) /\ ToLowercase(SubSeq(s, 1, Len(t))) = ToLowercase(t)
    THEN POk(Drop(s, Len(t)), SubSeq(s, 1, Len(t)))
    ELSE PErr

\* the closing quote of a quoted field, after its body
closing_quote(body) ==
    IF body.ok /\ Len(body.rem) > 0 /\ CharAt(body.rem, 1) \in QuoteChars
    THEN POk(Drop(body.rem, 1), body.v)
    ELSE PErr

\* delimited(alt((char('"'), char('\''))), take_while1(..), alt((char('"'), char('\''))))
quoted_field(input) ==
    IF Len(input) > 0 /\ CharAt(input, 1) \in QuoteChars
    THEN closing_quote(take_while1(QuotedFieldChars, Drop(input, 1)))
    ELSE PErr

\* parse_field: a quoted field (either quote on either side) or a regular one
parse_field(input) == Alt(quoted_field(input), take_while1(FieldChars, input))

\* the next parser of a sequence, applied to what the result r left; an error of r
\* is returned as it is (the `?` of the source)
then_tag(t, r) == IF r.ok THEN tag(t, r.rem) ELSE PErr
then_tag_no_case(t, r) == IF r.ok THEN tag_no_case(t, r.rem) ELSE PErr
then_space1(class, r) == IF r.ok THEN space1(class, r.rem) ELSE PErr
then_field(r) == IF r.ok THEN parse_field(r.rem) ELSE PErr
\* space0 after r, keeping the value of r
skip_space0(class, r) == IF r.ok THEN POk(space0(class, r.rem).rem, r.v) ELSE PErr
\* tag(t) after r, keeping the value of r
skip_tag(t, r) == IF r.ok /\ tag(t, r.rem).ok THEN POk(tag(t, r.rem).rem, r.v) ELSE PErr

\* tuple((space0, tag(","), space0))
comma_sep(s) == skip_space0(SpaceChars, then_tag(",", space0(SpaceChars, s)))

RECURSIVE field_list_rest(_, _)
RECURSIVE field_list_more(_, _, _)
\* the loop of nom separated_list1(comma_sep, parse_field) after the first field:
\* f is the result of a separator and a field at s
field_list_more(s, acc, f) ==
    IF ~f.ok THEN POk(s, acc) ELSE field_list_rest(f.rem, Append(acc, f.v))
field_list_rest(s, acc) == field_list_more(s, acc, then_field(comma_sep(s)))

field_list_first(f) == IF ~f.ok THEN PErr ELSE field_list_rest(f.rem, <<f.v>>)

\* separated_list1(tuple((space0, tag(","), space0)), parse_field)
field_list(s) == field_list_first(parse_field(s))
then_field_list(r) == IF r.ok THEN field_list(r.rem) ELSE PErr

star_list(r) == IF r.ok THEN POk(r.rem, [i \in 1..Len(r.v) |-> "*"]) ELSE PErr

\* many1(tag("*"))
stars(s) == star_list(take_while1({"*"}, s))

\* delimited(tag("("), inner, tag(")")) for inner = parse_field or tag("*")
parenthesised(s, star) ==
    skip_tag(")", IF star THEN then_tag("*", tag("(", s)) ELSE then_field(tag("(", s)))

\* alt((delimited(.. parse_field ..), delimited(.. tag("*") ..))) after COUNT
count_alt(k) ==
    IF ~k.ok THEN PErr ELSE Alt(parenthesised(k.rem, FALSE), parenthesised(k.rem, TRUE))

\* opt(preceded(tag_no_case("COUNT"), alt((...)))): ok is FALSE for None
count_column(s) == count_alt(tag_no_case("COUNT", s))

NoCondition == [some |-> FALSE, column |-> "", value |-> ""]
Condition(column, value) == [some |-> TRUE, column |-> column, value |-> value]

\* separated_pair(parse_field, tuple((space0, tag("="), space0)), parse_field)
condition_of(column, val) ==
    IF val.ok THEN POk(val.rem, Condition(column, val.v)) ELSE PErr
where_value(col) ==
    IF ~col.ok THEN PErr
    ELSE condition_of(col.v, then_field(skip_space0(SpaceChars,
                                 then_tag("=", space0(SpaceChars, col.rem)))))

\* opt(..): None, with the input untouched, when the clause does not parse
where_opt(s, r) == IF r.ok THEN r ELSE POk(s, NoCondition)

\* opt(map(tuple((tag_no_case("WHERE"), space1, separated_pair(...))), |s| s.2))
where_clause(s) ==
    where_opt(s, where_value(then_field(then_space1(SpaceChars, tag_no_case("WHERE", s)))))

Parsed(command, pk, columns, table, where_cond) ==
    [command |-> command, pk |-> pk, columns |-> columns, table |-> table,
     where_cond |-> where_cond]

\* parse_select, from the WHERE clause on
select_where(command, columns, table, cond) ==
    POk(cond.rem, Parsed(command, 0, columns, table, cond.v))

\* parse_select, from the table name on: terminated(parse_field, space0)
select_table(command, columns, table) ==
    IF ~table.ok THEN PErr
    ELSE select_where(command, columns, ToLowercase(table.v),
                      where_clause(space0(SpaceChars, table.rem).rem))

\* parse_select, from the lowercasing of the columns on
select_from(command, cols) ==
    IF ~cols.ok THEN PErr
    ELSE select_table(command, [i \in 1..Len(cols.v) |-> ToLowercase(cols.v[i])],
                      then_field(then_space1(SpaceChars,
                          then_tag_no_case("FROM", space1(SpaceChars, cols.rem)))))

\* parse_select, from the column list on: count is the result of the COUNT parser
select_list(rem, count) ==
    IF count.ok THEN select_from("Count", POk(count.rem, <<count.v>>))
    ELSE select_from("Select", Alt(stars(rem), field_list(rem)))

select_count(r) == IF ~r.ok THEN PErr ELSE select_list(r.rem, count_column(r.rem))

\* parse_select
parse_select(sql) == select_count(then_space1(SpaceChars, tag_no_case("SELECT", sql)))

\* tuple((multispace0, parse_field, multispace0))
word(s) == skip_space0(MultispaceChars, parse_field(space0(MultispaceChars, s).rem))

RECURSIVE column_words(_, _)
RECURSIVE column_words_more(_, _, _)
\* the loop of many1(tuple((multispace0, parse_field, multispace0))) after the first
column_words_more(s, acc, w) ==
    IF ~w.ok THEN POk(s, acc) ELSE column_words(w.rem, Append(acc, w.v))
column_words(s, acc) == column_words_more(s, acc, word(s))

\* terminated(.., alt((tag(","), multispace0))) and the result of parse_column_name:
\* <<name, is_primary_key>>
column_name_end(v) ==
    POk(Alt(tag(",", v.rem), space0(MultispaceChars, v.rem)).rem,
        <<v.v[1], \E i \in 1..Len(v.v) : v.v[i] = "primary">>)

column_name_first(w) ==
    IF ~w.ok THEN PErr ELSE column_name_end(column_words(w.rem, <<w.v>>))

\* parse_column_name
parse_column_name(input) == column_name_first(word(input))

RECURSIVE all_columns_rest(_, _)
RECURSIVE all_columns_more(_, _, _)
\* the loop of many1(parse_column_name) after the first column
all_columns_more(s, acc, c) ==
    IF ~c.ok THEN POk(s, acc) ELSE all_columns_rest(c.rem, Append(acc, c.v))
all_columns_rest(s, acc) == all_columns_more(s, acc, parse_column_name(s))

all_columns_first(c) == IF ~c.ok THEN PErr ELSE all_columns_rest(c.rem, <<c.v>>)

\* all_columns: many1(parse_column_name)
all_columns(input) == all_columns_first(parse_column_name(input))
then_all_columns(r) == IF r.ok THEN all_columns(r.rem) ELSE PErr

\* parse_columns
parse_columns(input) ==
    skip_space0(MultispaceChars,
        skip_tag(")", then_all_columns(tag("(", space0(MultispaceChars, input).rem))))
then_columns(r) == IF r.ok THEN parse_columns(r.rem) ELSE PErr

RECURSIVE LastPrimary(_, _)
\* the index (0-based) of the last column flagged primary among the first n, else 0
LastPrimary(columns, n) ==
    IF n = 0 THEN 0
    ELSE IF columns[n][2] THEN n - 1
    ELSE LastPrimary(columns, n - 1)

\* multispace0, CREATE, space1, TABLE or INDEX, space1
create_prefix(keyword, sql) ==
    then_space1(SpaceChars,
        then_tag_no_case(keyword,
            then_space1(SpaceChars,
                tag_no_case("CREATE", space0(MultispaceChars, sql).rem))))

\* parse_create_table, from the primary key on
create_table_parsed(table, columns) ==
    IF ~columns.ok THEN PErr
    ELSE POk(columns.rem,
             Parsed("CreateTable", LastPrimary(columns.v, Len(columns.v)),
                    [i \in 1..Len(columns.v) |-> columns.v[i][1]], table, NoCondition))

\* parse_create_table, from the multispace1 after the table name on
create_table_columns(table) ==
    IF ~table.ok THEN PErr
    ELSE create_table_parsed(table.v, then_columns(space1(MultispaceChars, table.rem)))

\* parse_create_table
parse_create_table(sql) == create_table_columns(then_field(create_prefix("TABLE", sql)))

create_index_parsed(table, columns) ==
    IF ~columns.ok THEN PErr
    ELSE POk(columns.rem, Parsed("CreateIndex", 0, columns.v, table, NoCondition))

\* parse_create_index, from the multispace1 after the table name on
create_index_columns(table) ==
    IF ~table.ok THEN PErr
    ELSE create_index_parsed(table.v,
             skip_tag(")", then_field_list(then_tag("(",
                 space1(MultispaceChars, table.rem)))))

\* parse_create_index
parse_create_index(sql) ==
    create_index_columns(
        then_field(then_space1(MultispaceChars,
            then_tag_no_case("ON", then_space1(MultispaceChars,
                then_field(create_prefix("INDEX", sql)))))))

\* enum Command (db/sql.rs): column is the COUNT column, "" for the other commands
Command(kind, columns, column, table, primary_key, where_cond) ==
    [kind |-> kind, columns |-> columns, column |-> column, table |-> table,
     primary_key |-> primary_key, where_cond |-> where_cond]

NoCommand == Command("None", << >>, "", "", 0, NoCondition)

\* the match on parsed.command of parse_command
command_of(parsed) ==
    CASE parsed.command = "Count" ->
             Command("Count", << >>, parsed.columns[1], parsed.table, 0, parsed.where_cond)
      [] parsed.command = "Select" ->
             Command("Select", parsed.columns, "", parsed.table, 0, parsed.where_cond)
      [] parsed.command = "CreateTable" ->
             Command("CreateTable", parsed.columns, "", parsed.table, parsed.pk,
                     NoCondition)
      [] OTHER ->
             Command("CreateIndex", parsed.columns, "", parsed.table, 0, NoCondition)

\* what parse_command makes of the parse: the unconsumed input rem is dropped
parsed_command(r) ==
    IF ~r.ok THEN [ok |-> FALSE, cmd |-> NoCommand, rem |-> ""]
    ELSE [ok |-> TRUE, rem |-> r.rem, cmd |-> command_of(r.v)]

\* parse_command (db/sql.rs): alt((parse_select, parse_create_table, parse_create_index))
parse_command(sql) ==
    parsed_command(Alt(parse_select(sql),
                       Alt(parse_create_table(sql), parse_create_index(sql))))

-----------------------------------------------------------------------------
(* The engine (db.rs, db/sql.rs): catalog lookups and command execution *)

Schema(typ, name, tbl_name, rootpage, sql) ==
    [typ |-> typ, name |-> name, tbl_name |-> tbl_name, rootpage |-> rootpage, sql |-> sql]

RECURSIVE Position(_, _, _)
\* Iterator::position: the 0-based index of the first element of s, at or after
\* 1-based index i, that equals x; -1 for None
Position(s, x, i) ==
    IF i > Len(s) THEN -1
    ELSE IF s[i] = x THEN i - 1
    ELSE Position(s, x, i + 1)

RECURSIVE FirstSchema(_, _)
\* the index of the first catalog entry at or after i that passes the test (hits[i]
\* tells whether entry i passes), 0 if none
FirstSchema(hits, i) ==
    IF i > Len(hits) THEN 0
    ELSE IF hits[i] THEN i
    ELSE FirstSchema(hits, i + 1)

NoTable == [ok |-> FALSE, name |-> "", columns |-> << >>, primary_key_column_index |-> 0]

\* the table descriptor made of the parsed DDL of a catalog entry
table_of(entry, ddl) ==
    IF ~ddl.ok \/ ddl.cmd.kind # "CreateTable" THEN NoTable
    ELSE [ok |-> TRUE, name |-> entry.tbl_name, columns |-> ddl.cmd.columns,
          primary_key_column_index |-> ddl.cmd.primary_key]

table_at(cat, i) == IF i = 0 THEN NoTable ELSE table_of(cat[i], parse_command(cat[i].sql))

IsTable(e, tbl_name) == e.typ = "table" /\ e.tbl_name = tbl_name

\* DB::table: the descriptor of the table tbl_name, from the DDL of its catalog entry
DbTable(cat, tbl_name) ==
    table_at(cat, FirstSchema([i \in 1..Len(cat) |-> IsTable(cat[i], tbl_name)], 1))

first_indexed_is(ddl, column) ==
    ddl.ok /\ ddl.cmd.kind = "CreateIndex" /\ ddl.cmd.columns[1] = column

IsIndexOn(e, tbl_name, column) ==
    /\ e.typ = "index"
    /\ e.tbl_name = tbl_name
    /\ first_indexed_is(parse_command(e.sql), column)

rootpage_at(cat, i) == IF i = 0 THEN NoPage ELSE cat[i].rootpage

\* DB::index_on_column: the root page of an index of the table whose first indexed
\* column is the given one; NoPage for None
DbIndexOnColumn(cat, tbl_name, column) ==
    rootpage_at(cat, FirstSchema([i \in 1..Len(cat) |-> IsIndexOn(cat[i], tbl_name, column)], 1))

root_page_num_at(cat, i) ==
    IF i = 0 THEN [ok |-> FALSE, v |-> NoPage] ELSE [ok |-> TRUE, v |-> cat[i].rootpage]

\* DB::root_page_num(name, SchemaType::Table)
DbRootPageNum(cat, name) ==
    root_page_num_at(cat, FirstSchema([i \in 1..Len(cat) |-> IsTable(cat[i], name)], 1))

\* what a command returns: rows, or an error, or a panic; tree is what Tree::cells
\* returned when the command called it
NoTree == [called |-> FALSE, ok |-> TRUE, panic |-> FALSE, cells |-> << >>]
ExecErr(pager, tree) ==
    [ok |-> FALSE, panic |-> FALSE, rows |-> << >>, tree |-> tree, pager |-> pager]
ExecPanic(pager, tree) ==
    [ok |-> FALSE, panic |-> TRUE, rows |-> << >>, tree |-> tree, pager |-> pager]
\* the `?` on the failure r of a call: the error returned, or the panic going on
ExecFail(r, pager, tree) == IF r.panic THEN ExecPanic(pager, tree) ELSE ExecErr(pager, tree)
ExecOk(pager, tree, result) ==
    [ok |-> TRUE, panic |-> FALSE, rows |-> result, tree |-> tree, pager |-> pager]

\* the result of Tree::cells as a command sees it
TreeOf(r) == [called |-> TRUE, ok |-> r.ok, panic |-> r.panic, cells |-> r.cells]

\* the pager before any call of get_page
Untouched(pager) ==
    [bad |-> pager.bad, short |-> pager.short, blobs |-> pager.blobs,
     use_cache |-> pager.use_cache, page_cache |-> pager.page_cache,
     fetched |-> << >>, loaded |-> << >>]

\* the filter of a condition on the column at cond_col_i (-1: not a column of the table)
filter_at(cat, table, tbl_name, cond, cond_col_i) ==
    IF cond_col_i < 0 THEN NoFilter
    ELSE CellFilter(DbIndexOnColumn(cat, tbl_name, cond.column), cond_col_i,
                    ToLowercase(cond.value), table.primary_key_column_index)

\* the WHERE condition of select_columns and of count: a condition on a column the
\* table does not have leaves the filter None
WhereFilter(cat, table, tbl_name, cond) ==
    IF ~cond.some THEN NoFilter
    ELSE filter_at(cat, table, tbl_name, cond, Position(table.columns, cond.column, 1))

\* the indices of the named columns, -1 for a name the table does not have
NamedIndices(table, column_names) ==
    [i \in 1..Len(column_names) |-> Position(table.columns, column_names[i], 1)]

indices_found(v) == [ok |-> \A i \in 1..Len(v) : v[i] >= 0, v |-> v]

\* column indices taken in the reverse of the order the columns were asked for
ColIndicesReversed(table, column_names) ==
    IF Len(column_names) = 1 /\ column_names[1] = "*"
    THEN [ok |-> TRUE, v |-> [i \in 1..Len(table.columns) |-> i - 1]]
    ELSE indices_found(NamedIndices(table, [i \in 1..Len(column_names) |->
                                               column_names[Len(column_names) + 1 - i]]))

\* the column indices select_columns projects: [ok, v]
ColIndices(table, column_names) ==
    IF Len(column_names) = 1 /\ column_names[1] = "*"
    THEN [ok |-> TRUE, v |-> [i \in 1..Len(table.columns) |-> i - 1]]
    ELSE indices_found(NamedIndices(table, column_names))

RECURSIVE FirstFailure(_, _)
\* the first result of s, at or after index i, that is not ok; Ok when all are
FirstFailure(s, i) ==
    IF i > Len(s) THEN Ok(CNull)
    ELSE IF ~s[i].ok THEN s[i]
    ELSE FirstFailure(s, i + 1)

\* the row made of the decoded columns, or the first failure among them
columns_decoded(cols) ==
    [ok |-> FirstFailure(cols, 1).ok, panic |-> FirstFailure(cols, 1).panic,
     v |-> [i \in 1..Len(cols) |-> to_string(cols[i].v)]]

\* one row of select_columns: the requested columns of a cell, rendered
ProjectRow(cell, col_indices, pk) ==
    columns_decoded([i \in 1..Len(col_indices) |->
                        TableLeafCell_column(cell, col_indices[i], pk)])

\* select_columns, from the end of the loop over the cells on
select_result(r, result) ==
    IF ~FirstFailure(result, 1).ok THEN ExecFail(FirstFailure(result, 1), r.pager, TreeOf(r))
    ELSE ExecOk(r.pager, TreeOf(r), [i \in 1..Len(result) |-> result[i].v])

\* select_columns, from the loop over the cells on: r is what Tree::cells returned
select_rows(table, col_indices, r) ==
    IF ~r.ok THEN ExecFail(r, r.pager, TreeOf(r))
    ELSE select_result(r, [i \in 1..Len(r.cells) |->
                              ProjectRow(r.cells[i], col_indices,
                                         table.primary_key_column_index)])

\* select_columns, from the lookup of the root page on
select_walk(pager, table, col_indices, filter, table_root_page) ==
    IF ~table_root_page.ok THEN ExecErr(Untouched(pager), NoTree)
    ELSE select_rows(table, col_indices, Tree_cells(pager, table_root_page.v, filter))

\* select_columns, from the WHERE condition on
select_filter(cat, pager, cond, tbl_name, table, col_indices) ==
    IF ~col_indices.ok THEN ExecErr(Untouched(pager), NoTree)
    ELSE select_walk(pager, table, col_indices.v, WhereFilter(cat, table, tbl_name, cond),
                     DbRootPageNum(cat, table.name))

\* select_columns, from the column indices on
select_indices(cat, pager, column_names, cond, tbl_name, table) ==
    IF ~table.ok THEN ExecErr(Untouched(pager), NoTree)
    ELSE select_filter(cat, pager, cond, tbl_name, table, ColIndices(table, column_names))

\* Command::select_columns
select_columns(cat, pager, column_names, cond, tbl_name) ==
    select_indices(cat, pager, column_names, cond, tbl_name, DbTable(cat, tbl_name))

\* count, from the call of Tree::cells on
count_cells(r) ==
    IF ~r.ok THEN ExecFail(r, r.pager, TreeOf(r))
    ELSE ExecOk(r.pager, TreeOf(r), << <<NatToString(Len(r.cells))>> >>)

\* count, from the lookup of the root page on
count_walk(pager, filter, table_root_page) ==
    IF ~table_root_page.ok THEN ExecErr(Untouched(pager), NoTree)
    ELSE count_cells(Tree_cells(pager, table_root_page.v, filter))

\* count, from the WHERE condition on
count_filter(cat, pager, tbl_name, cond, table) ==
    IF ~table.ok THEN ExecErr(Untouched(pager), NoTree)
    ELSE count_walk(pager, WhereFilter(cat, table, tbl_name, cond),
                    DbRootPageNum(cat, table.name))

\* a count that ignores the WHERE condition
count_unfiltered(cat, pager, tbl_name, cond) ==
    count_filter(cat, pager, tbl_name, NoCondition, DbTable(cat, tbl_name))

\* Command::count
count(cat, pager, tbl_name, cond) ==
    count_filter(cat, pager, tbl_name, cond, DbTable(cat, tbl_name))

\* Command::execute
Command_execute(cat, pager, cmd) ==
    CASE cmd.kind = "Select" ->
             select_columns(cat, pager, cmd.columns, cmd.where_cond, cmd.table)
      [] cmd.kind = "Count" -> count(cat, pager, cmd.table, cmd.where_cond)
      [] OTHER -> ExecPanic(Untouched(pager), NoTree)

execute_parsed(cat, pager, cmd) ==
    IF ~cmd.ok THEN ExecErr(Untouched(pager), NoTree)
    ELSE Command_execute(cat, pager, cmd.cmd)

\* DB::execute
DB_execute(cat, pager, sql) == execute_parsed(cat, pager, parse_command(sql))

-----------------------------------------------------------------------------
(* The databases of the model: a table apples(id, name, color) stored as a   *)
(* table b-tree, and an index on color stored as an index b-tree.            *)

TableRoot == 2
IndexRoot == 3
PkCol == 0
NameCol == 1
ColorCol == 2
Colors == {"Red", "blue"}

RowName(row_id) == "n" \o NatToString(row_id)

\* the table-leaf cell of a row: the primary key is NULL in the record body
RowCell(r) == TableLeafCell(r.row_id, <<CNull, CText(RowName(r.row_id)), CText(r.color)>>)

\* the index record of a row: (key, row-id)
RowEntry(r) == <<CText(r.color), CInt(r.row_id)>>

RECURSIVE SortedIds(_)
SortedIds(ids) ==
    IF ids = {} THEN << >>
    ELSE LET m == CHOOSE x \in ids : \A y \in ids : x <= y
         IN  <<m>> \o SortedIds(ids \ {m})

\* every table content: at most MaxRows rows, row-ids in 1..MaxRowId, ascending
RowSeqs ==
    UNION { { [i \in 1..Len(SortedIds(ids)) |->
                  [row_id |-> SortedIds(ids)[i], color |-> c[SortedIds(ids)[i]]]] :
              c \in [ids -> Colors] } :
            ids \in { x \in SUBSET (1..MaxRowId) : Cardinality(x) <= MaxRows } }

EntryLess(a, b) ==
    \/ StrLess(a.color, b.color)
    \/ a.color = b.color /\ a.row_id < b.row_id

RECURSIVE SortEntries(_)
\* the rows in index order: ascending by (key, row-id)
SortEntries(rs) ==
    IF rs = {} THEN << >>
    ELSE LET m == CHOOSE x \in rs : \A y \in rs : x = y \/ EntryLess(x, y)
         IN  <<m>> \o SortEntries(rs \ {m})

Range(s) == { s[i] : i \in 1..Len(s) }

RECURSIVE SeqProduct(_)
\* the sequences that take their i-th element from the i-th set
SeqProduct(sets) ==
    IF Len(sets) = 0 THEN { << >> }
    ELSE { <<h>> \o t : h \in Head(sets), t \in SeqProduct(Tail(sets)) }

RECURSIVE Splits(_, _)
\* the ways to cut s into k non-empty consecutive runs
Splits(s, k) ==
    IF k = 1 THEN (IF Len(s) >= 1 THEN { <<s>> } ELSE {})
    ELSE UNION { { <<SubSeq(s, 1, n)>> \o rest :
                   rest \in Splits(SubSeq(s, n + 1, Len(s)), k - 1) } :
                 n \in 1..(Len(s) - (k - 1)) }

RECURSIVE IndexSplits(_, _)
\* the ways to cut s into runs seg, e, seg, ..., e, seg with c single entries e
IndexSplits(s, c) ==
    IF c = 0 THEN (IF Len(s) >= 1 THEN { [segs |-> <<s>>, seps |-> << >>] } ELSE {})
    ELSE UNION { { [segs |-> <<SubSeq(s, 1, n)>> \o rest.segs,
                    seps |-> <<s[n + 1]>> \o rest.seps] :
                   rest \in IndexSplits(SubSeq(s, n + 2, Len(s)), c - 1) } :
                 n \in 1..(Len(s) - 2 * c) }

RECURSIVE TableTrees(_, _)
\* the table b-trees of depth d over the rows rs: an interior node holds 0..MaxCells
\* separator keys, key j at least the largest row-id below child j and less than the
\* smallest one below child j+1; the last child hangs from rightmost_pointer
TableTrees(rs, d) ==
    IF d = 1 THEN { [leaf |-> TRUE, cells |-> rs, kids |-> << >>] }
    ELSE UNION { UNION { { [leaf |-> FALSE, cells |-> keys, kids |-> kids] :
                   keys \in SeqProduct([j \in 1..c |->
                              { [row_id |-> k, color |-> ""] :
                                k \in parts[j][Len(parts[j])].row_id ..
                                      (parts[j + 1][1].row_id - 1) }]),
                   kids \in SeqProduct([j \in 1..(c + 1) |-> TableTrees(parts[j], d - 1)]) } :
                 parts \in Splits(rs, c + 1) } :
               c \in 0..MaxCells }

RECURSIVE IndexTrees(_, _)
\* the index b-trees of depth d over the entries es (rows in index order)
IndexTrees(es, d) ==
    IF d = 1 THEN { [leaf |-> TRUE, cells |-> es, kids |-> << >>] }
    ELSE UNION { UNION { { [leaf |-> FALSE, cells |-> sp.seps, kids |-> kids] :
                   kids \in SeqProduct([j \in 1..(c + 1) |->
                                           IndexTrees(sp.segs[j], d - 1)]) } :
                 sp \in IndexSplits(es, c) } :
               c \in 0..MaxCells }

\* page numbers: child j of page p is page p * Fanout + (j - 1)
Fanout == MaxCells + 2
KidPage(p, j) == p * Fanout + (j - 1)

RECURSIVE MergeAll(_)
MergeAll(fs) == IF Len(fs) = 0 THEN << >> ELSE Head(fs) @@ MergeAll(Tail(fs))

RECURSIVE TreePages(_, _, _)
\* the pages of the tree t rooted at page p; table is TRUE for a table b-tree
TreePages(t, p, table) ==
    IF t.leaf
    THEN p :> Page(IF table THEN "TableLeaf" ELSE "IndexLeaf",
                   [i \in 1..Len(t.cells) |->
                       IF table THEN RowCell(t.cells[i])
                       ELSE IndexLeafCell(RowEntry(t.cells[i]))],
                   NoPage)
    ELSE LET n == Len(t.kids)
         IN  (p :> Page(IF table THEN "TableInterior" ELSE "IndexInterior",
                        [j \in 1..(n - 1) |->
                            IF table THEN TableInteriorCell(KidPage(p, j), t.cells[j].row_id)
                            ELSE IndexInteriorCell(KidPage(p, j), RowEntry(t.cells[j]))],
                        KidPage(p, n)))
             @@ MergeAll([j \in 1..n |-> TreePages(t.kids[j], KidPage(p, j), table)])

\* the database files holding the rows rs, the table b-tree at most td pages deep and
\* the index b-tree at most xd
DatabasesOfDepth(rs, td, xd) ==
    { TreePages(tt, TableRoot, TRUE) @@ TreePages(it, IndexRoot, FALSE) :
      tt \in UNION { TableTrees(rs, d) : d \in 1..td },
      it \in UNION { IndexTrees(SortEntries(Range(rs)), d) : d \in 1..xd } }

Databases(rs) == DatabasesOfDepth(rs, MaxDepth, MaxIndexDepth)

-----------------------------------------------------------------------------
(* The program as a state machine.  op is the last call made and its inputs,  *)
(* out is what the call returned and what it did to the pager.                *)

NoOut == [ok |-> TRUE, panic |-> FALSE, cells |-> << >>, rows |-> << >>,
          tree |-> NoTree, fetched |-> << >>, loaded |-> << >>,
          cmd |-> NoCommand, rem |-> ""]

\* the pieces a statement of the model is written from: a select list is its text
\* and the columns it names, a WHERE clause its text and the column and value it names
Proj(text, columns, is_count) == [text |-> text, columns |-> columns, is_count |-> is_count]
NoProj == Proj("", << >>, FALSE)
Where(text, column, value) == [text |-> text, column |-> column, value |-> value]
NoWhere == Where("", "", "")

NoOp == [name |-> "open", page |-> NoPage, filter |-> NoFilter, sql |-> "",
         proj |-> NoProj, table |-> "", where |-> NoWhere, rest |-> ""]

InitPager ==
    /\ use_cache = FALSE
    /\ page_cache = {}
    /\ op = NoOp
    /\ out = NoOut

\* the catalog entries of the table and of its index
TableDDL == "CREATE TABLE apples (id integer primary key autoincrement, name text, color text)"
IndexDDL == "CREATE INDEX idx_apples_color on apples (color)"
TableSchema == Schema("table", "apples", "apples", TableRoot, TableDDL)
IndexSchema == Schema("index", "idx_apples_color", "apples", IndexRoot, IndexDDL)

\* a well-formed database just opened
InitWalk ==
    /\ rows \in RowSeqs
    /\ pages \in Databases(rows)
    /\ bad = {}
    /\ short = {}
    /\ blobs = {}
    /\ schemas = <<TableSchema, IndexSchema>>
    /\ InitPager

\* filter values of the model
Vals == {"red", "Red", "blue"}
RowIdVals == { NatToString(n) : n \in 1..(MaxRowId + 1) }

\* the pager of the engine
ThePager ==
    [bad |-> bad, short |-> short, blobs |-> blobs, use_cache |-> use_cache,
     page_cache |-> page_cache]

\* one call of Tree::new(pager).cells(page, filter)
Returned(r) ==
    /\ use_cache' = r.pager.use_cache
    /\ page_cache' = r.pager.page_cache
    /\ out' = [NoOut EXCEPT !.ok = r.ok, !.panic = r.panic, !.cells = r.cells,
                            !.fetched = r.pager.fetched, !.loaded = r.pager.loaded]

Cells(name, page, filter) ==
    /\ Returned(Tree_cells(ThePager, page, filter))
    /\ op' = [NoOp EXCEPT !.name = name, !.page = page, !.filter = filter]
    /\ UNCHANGED <<rows, pages, bad, short, blobs, schemas>>

FullScan == Cells("scan", TableRoot, NoFilter)

PkProbe == \E v \in RowIdVals : Cells("pk", TableRoot, CellFilter(NoPage, PkCol, v, PkCol))

FilteredScan ==
    \E v \in Vals : Cells("filter", TableRoot, CellFilter(NoPage, ColorCol, v, PkCol))

IndexProbe ==
    \E v \in Vals : Cells("index", TableRoot, CellFilter(IndexRoot, ColorCol, v, PkCol))

\* row-ids written with a leading zero
PaddedVals == { "0" \o NatToString(n) : n \in 1..MaxRowId }

\* a primary-key probe whose target is not written as the row-id is rendered
PkProbePadded ==
    \E v \in PaddedVals : Cells("pk0", TableRoot, CellFilter(NoPage, PkCol, v, PkCol))

NextWalk == FullScan \/ PkProbe \/ FilteredScan \/ IndexProbe \/ PkProbePadded

SpecWalk == InitWalk /\ [][NextWalk]_vars

-----------------------------------------------------------------------------
(* The engine as a state machine: one action per call of DB::execute, on a    *)
(* database file that may hold an unreadable page, a truncated record or a   *)
(* BLOB column                                                              *)

TableColumns == <<"id", "name", "color">>

SelectAll == Proj("*", TableColumns, FALSE)
CountStar == Proj("COUNT(*)", << >>, TRUE)

\* the select lists of the model
Projs ==
    { SelectAll,
      Proj("name", <<"name">>, FALSE),
      Proj("color, name", <<"color", "name">>, FALSE),
      Proj("name, id, name", <<"name", "id", "name">>, FALSE),
      Proj("size", <<"size">>, FALSE),
      CountStar,
      Proj("COUNT(size)", << >>, TRUE) }

\* the WHERE clauses of the model
Wheres ==
    { NoWhere,
      Where(" WHERE color = 'Red'", "color", "Red"),
      Where(" WHERE color = blue", "color", "blue"),
      Where(" WHERE id = 2", "id", "2"),
      Where(" WHERE name = n1", "name", "n1"),
      Where(" WHERE size = 'Red'", "size", "Red") }

QuerySql(proj, table, where) == "SELECT " \o proj.text \o " FROM " \o table \o where.text

\* statements that are not queries of the table
Statements ==
    { "CREATE TABLE pears (id integer primary key, name text)",
      "CREATE INDEX idx_pears_name on pears (name)",
      "DROP TABLE apples",
      "" }

Catalogs == { <<TableSchema>>, <<TableSchema, IndexSchema>> }

\* the table of the engine runs: MaxRows rows, the last one blue, the others Red
ExecRows ==
    { rs \in RowSeqs :
        /\ Len(rs) = MaxRows
        /\ \A i \in 1..Len(rs) : rs[i].color = IF i = Len(rs) THEN "blue" ELSE "Red" }

\* a database just opened, with at most one unreadable page, or one truncated
\* record, or one BLOB
InitExec ==
    /\ rows \in ExecRows
    /\ pages \in DatabasesOfDepth(rows, ExecDepth, ExecDepth)
    /\ schemas \in Catalogs
    /\ bad \in {{}} \cup { {p} : p \in DOMAIN pages }
    /\ short \in {{}} \cup { {rows[i].row_id} : i \in 1..Len(rows) }
    /\ blobs \in {{}} \cup { {rows[i].row_id} : i \in 1..Len(rows) }
    /\ Cardinality(bad) + Cardinality(short) + Cardinality(blobs) <= 1
    /\ InitPager

\* the one call of DB::execute(sql) of a run of the program, which opens the
\* database, executes the command of its command line and exits
Executed(r) ==
    /\ use_cache' = r.pager.use_cache
    /\ page_cache' = r.pager.page_cache
    /\ out' = [NoOut EXCEPT !.ok = r.ok, !.panic = r.panic, !.rows = r.rows,
                            !.tree = r.tree, !.cells = r.tree.cells,
                            !.fetched = r.pager.fetched, !.loaded = r.pager.loaded]

\* a call of DB::execute(sql) on the engine as it is
Run(sql, proj, table, where) ==
    /\ Executed(DB_execute(schemas, ThePager, sql))
    /\ op' = [NoOp EXCEPT !.name = "exec", !.sql = sql, !.proj = proj,
                          !.table = table, !.where = where]
    /\ UNCHANGED <<rows, pages, bad, short, blobs, schemas>>

Execute(sql, proj, table, where) ==
    /\ op.name = "open"
    /\ Run(sql, proj, table, where)

Query ==
    \E proj \in Projs, where \in Wheres :
        Execute(QuerySql(proj, "apples", where), proj, "apples", where)

\* a query of a table the catalog does not hold
QueryMissing ==
    \E proj \in {SelectAll, CountStar} :
        Execute(QuerySql(proj, "pears", NoWhere), proj, "pears", NoWhere)

Statement == \E sql \in Statements : Execute(sql, NoProj, "", NoWhere)

NextExec == Query \/ QueryMissing \/ Statement

SpecExec == InitExec /\ [][NextExec]_vars

-----------------------------------------------------------------------------
(* A session: any number of calls of DB::execute on one engine, whose pager  *)
(* keeps use_cache and page_cache from one call to the next                  *)

SessionWheres ==
    { NoWhere,
      Where(" WHERE color = 'Red'", "color", "Red"),
      Where(" WHERE color = blue", "color", "blue"),
      Where(" WHERE id = 2", "id", "2") }

SessionQuery ==
    \E where \in SessionWheres : Run(QuerySql(SelectAll, "apples", where), SelectAll, "apples", where)

SessionCount == Run(QuerySql(CountStar, "apples", NoWhere), CountStar, "apples", NoWhere)

\* a query that fails: the catalog does not hold its table
SessionMissing == Run(QuerySql(SelectAll, "pears", NoWhere), SelectAll, "pears", NoWhere)

\* a statement that is not a query
SessionStatement ==
    Run("CREATE TABLE pears (id integer primary key, name text)", NoProj, "", NoWhere)

\* a database just opened, with at most one unreadable page or one truncated
\* record (a BLOB column ends the program with a panic, and the session with it)
InitSession == InitExec /\ blobs = {}

NextSession == SessionQuery \/ SessionCount \/ SessionMissing \/ SessionStatement

SpecSession == InitSession /\ [][NextSession]_vars

-----------------------------------------------------------------------------
(* The parser as a state machine: one call of parse_command on a statement    *)
(* written from pieces in either case, with or without text after it          *)

Keywords ==
    { [select |-> "SELECT", from |-> "FROM"], [select |-> "select", from |-> "from"] }

ParseProjs ==
    { Proj("*", <<"*">>, FALSE),
      Proj("Name", <<"Name">>, FALSE),
      Proj("name, COLOR", <<"name", "COLOR">>, FALSE),
      Proj("COUNT(*)", <<"*">>, TRUE),
      Proj("count(Name)", <<"Name">>, TRUE) }

ParseTables == {"apples", "Apples"}

ParseWheres ==
    { NoWhere,
      Where(" WHERE Color = 'Red'", "Color", "Red"),
      Where(" where color = red", "color", "red") }

\* what follows the statement
Rests == {"", " ", " ORDER BY name", " AND name = 'n1'", " LIMIT 1"}

\* column definitions of CREATE TABLE, and the columns they name
ColumnDefs ==
    { Proj("id integer primary key, name text", <<"id", "name">>, FALSE),
      Proj("ID integer, Name text primary key", <<"ID", "Name">>, FALSE),
      Proj("name TEXT PRIMARY KEY", <<"name">>, FALSE),
      Proj("id integer, name text PRIMARY KEY", <<"id", "name">>, FALSE),
      Proj("id integer, name text, n integer Primary Key", <<"id", "name", "n">>, FALSE),
      Proj("name text, color text", <<"name", "color">>, FALSE) }

IndexColumns == { Proj("color", <<"color">>, FALSE), Proj("Color", <<"Color">>, FALSE) }

\* texts the grammar does not derive
Junk == {"", "DROP TABLE apples", "SELECT", "SELECT * apples", "SELECT FROM apples",
         "CREATE TABLE apples", "CREATE INDEX idx on apples"}

InitParse ==
    /\ rows = << >>
    /\ pages = << >>
    /\ schemas = << >>
    /\ bad = {}
    /\ short = {}
    /\ blobs = {}
    /\ InitPager

\* one call of parse_command(sql); kind is the statement the pieces were written as
ParsedOut(r) == [NoOut EXCEPT !.ok = r.ok, !.cmd = r.cmd, !.rem = r.rem]

Parse(kind, sql, proj, table, where, rest) ==
    /\ op.name = "open"
    /\ op' = [NoOp EXCEPT !.name = kind, !.sql = sql, !.proj = proj, !.table = table,
                          !.where = where, !.rest = rest]
    /\ out' = ParsedOut(parse_command(sql))
    /\ UNCHANGED <<rows, pages, bad, short, blobs, schemas, use_cache, page_cache>>

ParseSelect ==
    \E kw \in Keywords, proj \in ParseProjs, table \in ParseTables,
       where \in ParseWheres, rest \in Rests :
        Parse("select",
              kw.select \o " " \o proj.text \o " " \o kw.from \o " " \o table
                  \o where.text \o rest,
              proj, table, where, rest)

ParseCreateTable ==
    \E defs \in ColumnDefs, table \in ParseTables, rest \in {"", " WITHOUT ROWID"} :
        Parse("create_table", "CREATE TABLE " \o table \o " (" \o defs.text \o ")" \o rest,
              defs, table, NoWhere, rest)

ParseCreateIndex ==
    \E col \in IndexColumns, table \in ParseTables, rest \in {"", " WHERE color = 1"} :
        Parse("create_index",
              "CREATE INDEX idx_color on " \o table \o " (" \o col.text \o ")" \o rest,
              col, table, NoWhere, rest)

ParseJunk == \E sql \in Junk : Parse("junk", sql, NoProj, "", NoWhere, "")

NextParse == ParseSelect \/ ParseCreateTable \/ ParseCreateIndex \/ ParseJunk

SpecParse == InitParse /\ [][NextParse]_vars

-----------------------------------------------------------------------------
(* Properties of the walker (SpecWalk) *)

\* a pager on the undamaged file, nothing cached
FreshPager ==
    [bad |-> {}, short |-> {}, blobs |-> {}, use_cache |-> FALSE, page_cache |-> {}]

\* the table-leaf cells of the table, in depth-first left-to-right order
AllCells == [i \in 1..Len(rows) |-> RowCell(rows[i])]

\* every interior page holds at least one cell
NoEmptyInterior ==
    \A p \in DOMAIN pages :
        pages[p].page_type \in {"TableInterior", "IndexInterior"} => pages[p].n_cells > 0

\* the filtered full scan for the column and value of the filter f
ScanOf(f) == Tree_cells(FreshPager, TableRoot, [f EXCEPT !.index_root_page = NoPage])

\* C1: on a well-formed table and index (here even with no interior page left
\* without cells, and for the lowercase values the engine passes), the index probe for
\* a value returns the same set of table-leaf cells as the filtered full scan for it
C1_IndexProbeEqualsFilteredScan ==
    (op.name = "index" /\ NoEmptyInterior /\ op.filter.val = ToLowercase(op.filter.val)) =>
        out.ok /\ Range(out.cells) = Range(ScanOf(op.filter).cells)

\* C2: with no filter, Tree::cells from the table root returns the table-leaf cells
\* of the tree in depth-first left-to-right order, each once, whatever the depth and
\* also when an interior page holds no cell and only a rightmost pointer
C2_FullScanReturnsEveryCell ==
    op.name = "scan" => out.ok /\ out.cells = AllCells

\* the cells whose row-id is the number the text v denotes
PkExpected(v) ==
    LET Match(c) == ParseU64(v).ok /\ c.row_id = ParseU64(v).v IN SelectSeq(AllCells, Match)

\* C3: a primary-key probe for row-id r returns exactly the table-leaf cells whose
\* row-id is r: the one cell if r is stored, no cell otherwise
C3_PkProbeReturnsTheRow ==
    op.name = "pk" => out.ok /\ out.cells = PkExpected(op.filter.val)

\* the row-ids of the index entries whose key matches v, compared as the filtered scan
\* compares or as written
Emitted(v) ==
    { rows[i].row_id : i \in { j \in 1..Len(rows) :
                                 rows[j].color = v \/ ToLowercase(rows[j].color) = v } }

\* C5: during an index-assisted query every table-leaf page handed out by
\* Pager::get_page holds a row-id emitted by a matching index cell
C5_IndexProbeFetchesOnlyReferencedLeaves ==
    (op.name = "index" /\ NoEmptyInterior) =>
        \A k \in 1..Len(out.fetched) :
            pages[out.fetched[k]].page_type = "TableLeaf" =>
                \E i \in 1..Len(pages[out.fetched[k]].cells) :
                    pages[out.fetched[k]].cells[i].row_id \in Emitted(op.filter.val)

-----------------------------------------------------------------------------
(* Properties of the engine (SpecExec) *)

\* the pager of a run before its command: the file as damaged, nothing cached
OpenPager ==
    [bad |-> bad, short |-> short, blobs |-> blobs, use_cache |-> FALSE, page_cache |-> {}]

\* C4: a query returns its full row set or an error: when a page read, a cell decode
\* or a column decode fails at any depth, Tree::cells and DB::execute return an error
\* (the call comes back, it does not panic) and none of the rows collected before the
\* failure; rows that are returned are those the undamaged file gives
C4_AllOrNothing ==
    (op.name = "exec" /\ op.proj # NoProj) =>
        /\ ~out.panic
        /\ (out.tree.called /\ ~out.tree.ok) => (~out.ok /\ out.tree.cells = << >>)
        /\ ~out.ok => out.rows = << >>
        /\ out.ok => out.rows = DB_execute(schemas, FreshPager, op.sql).rows

\* the names of the tables in the catalog
CatalogTables == { schemas[i].tbl_name : i \in { j \in 1..Len(schemas) : schemas[j].typ = "table" } }

\* the query names a table, a projected column or a WHERE column that does not exist
NamesMissing ==
    \/ op.table \notin CatalogTables
    \/ ~op.proj.is_count /\ \E j \in 1..Len(op.proj.columns) :
                               op.proj.columns[j] \notin Range(TableColumns)
    \/ op.where # NoWhere /\ op.where.column \notin Range(TableColumns)

\* C6: a SELECT or COUNT that names a table absent from the catalog, a projected
\* column absent from the table or a WHERE column absent from the table returns an
\* error and no rows
C6_MissingNamesAreErrors ==
    (op.name = "exec" /\ op.proj # NoProj /\ NamesMissing) => (~out.ok /\ out.rows = << >>)

\* what SELECT * returns for the table and the predicate of the query executed
SelectStar == DB_execute(schemas, OpenPager, QuerySql(SelectAll, op.table, op.where))

\* C8: the single number COUNT returns is the number of rows SELECT * returns on the
\* same table with the same predicate, whatever the catalog; on an undamaged file
\* of text and integer columns the one succeeds when the other does
C8_CountEqualsSelectStar ==
    (op.name = "exec" /\ op.proj.is_count) =>
        /\ (SelectStar.ok /\ out.ok) => out.rows = << <<NatToString(Len(SelectStar.rows))>> >>
        /\ (bad = {} /\ short = {} /\ blobs = {}) => (out.ok <=> SelectStar.ok)

\* a COUNT with a predicate that holds of some rows and not of others
C8_Witness ==
    /\ op.name = "exec" /\ op.proj.is_count /\ op.where.column = "color"
    /\ out.ok /\ Len(out.rows) = 1
    /\ out.rows[1][1] \notin {"0", NatToString(Len(rows))}

\* the text SELECT shows for column c of the row stored under row_id
Rendered(row_id, c) ==
    CASE c = "id" -> NatToString(row_id)
      [] c = "name" -> RowName(row_id)
      [] c = "color" -> (CHOOSE r \in Range(rows) : r.row_id = row_id).color
      [] OTHER -> "?"

\* C9: every row SELECT returns has one value per requested column, in the order
\* the columns were listed (repeats included), and in the declared order for *
C9_ProjectionOrder ==
    (op.name = "exec" /\ op.proj # NoProj /\ ~op.proj.is_count /\ out.ok) =>
        /\ Len(out.rows) = Len(out.cells)
        /\ \A i \in 1..Len(out.rows) :
              out.rows[i] = [j \in 1..Len(op.proj.columns) |->
                                Rendered(out.cells[i].row_id, op.proj.columns[j])]

\* a projection list out of the declared order, with a repeat, that returned rows
C9_Witness ==
    /\ op.name = "exec" /\ op.proj.columns = <<"name", "id", "name">>
    /\ out.ok /\ Len(out.rows) > 1

-----------------------------------------------------------------------------
(* Properties of the parser (SpecParse) *)

HasText(s) == \E i \in 1..Len(s) : CharAt(s, i) \notin MultispaceChars

\* C7: parse_command returns an error and no Command for every input the grammar
\* does not derive as a whole, a valid statement followed by further text included
C7_TrailingTextIsParseError ==
    (op.name = "junk" \/ (op.name \in {"select", "create_table", "create_index"}
                          /\ HasText(op.rest)))
        => (~out.ok /\ out.cmd = NoCommand)

Lowercased(names) == [i \in 1..Len(names) |-> ToLowercase(names[i])]

\* C10: every identifier of the Command is the lowercase of what was written: the
\* projection columns, the COUNT column, the table, the WHERE column, the table and
\* the columns of CREATE TABLE and CREATE INDEX; the WHERE value is as written
C10_IdentifiersLowercased ==
    (op.name \in {"select", "create_table", "create_index"} /\ out.ok) =>
        /\ out.cmd.table = ToLowercase(op.table)
        /\ out.cmd.kind = "Count" => out.cmd.column = ToLowercase(op.proj.columns[1])
        /\ out.cmd.kind # "Count" => out.cmd.columns = Lowercased(op.proj.columns)
        /\ out.cmd.where_cond.some =>
              /\ out.cmd.where_cond.column = ToLowercase(op.where.column)
              /\ out.cmd.where_cond.value = op.where.value

-----------------------------------------------------------------------------
(* Properties of the page cache (SpecWalk) *)

\* C12: when an index-assisted query has finished, with rows or with an error, the
\* page cache is empty and caching is off again, and a later query without an index
\* reads every page it fetches from the file and leaves the cache empty
C12_CacheDiscardedAfterQuery ==
    /\ op.name = "index" => (~use_cache /\ page_cache = {})
    /\ op.name \in {"scan", "pk", "filter"} =>
          (out.loaded = out.fetched /\ page_cache = {})

\* C13: in one query with the page cache on, no page number is passed to
\* Pager::get_page twice, the table root page included when several index cells match
C13_EachPageFetchedOnce ==
    op.name = "index" =>
        \A i, j \in 1..Len(out.fetched) : out.fetched[i] = out.fetched[j] => i = j

-----------------------------------------------------------------------------
(* Varints (db/schema.rs).  A buffer is a sequence of bytes (0..255).  An i64 *)
(* is the sequence of its 64 bits, most significant first, so that every      *)
(* shift keeps the width of the machine integer.                              *)

\* the w bits of n, most significant first
Bits(n, w) == [i \in 1..w |-> (n \div (2 ^ (w - i))) % 2]

RECURSIVE BitsValue(_)
\* the number a sequence of bits stands for (fewer than 32 significant bits),
\* computed by halves
BitsValue(bits) ==
    IF Len(bits) <= 1 THEN (IF bits = << >> THEN 0 ELSE bits[1])
    ELSE IF \A i \in 1..(Len(bits) \div 2) : bits[i] = 0
    THEN BitsValue(SubSeq(bits, Len(bits) \div 2 + 1, Len(bits)))
    ELSE BitsValue(SubSeq(bits, 1, Len(bits) \div 2)) * 2 ^ (Len(bits) - Len(bits) \div 2)
         + BitsValue(SubSeq(bits, Len(bits) \div 2 + 1, Len(bits)))

\* `byte as i64`: 64 bits whose low w bits are those of n
I64(n, w) == [i \in 1..(64 - w) |-> 0] \o Bits(n, w)

\* a shift that takes in all 8 bits of the byte
ShiftIn8(res, b1) == SubSeq(res, 9, 64) \o Bits(b1, 8)

\* `res <<= 7; res += b1 & 0b0111_1111` on an i64
ShiftIn7(res, b1) == SubSeq(res, 8, 64) \o Bits(b1 % 128, 7)

\* a varint that never finds the buffer ended on a continuation byte
NeverUnfinished(rest, b1) == FALSE

\* `buf.remaining() == 0 && b1 & 0b1000_0000 != 0`: the byte just read is the last
\* of the buffer and still has its continuation bit
Unfinished(rest, b1) == rest = << >> /\ b1 >= 128

VarintErr == [ok |-> FALSE, v |-> I64(0, 1), rem |-> << >>]

RECURSIVE VarintLoop(_, _, _, _)
\* the while loop of varint: buf is what is left of the buffer, b0 the last byte
\* read, res the accumulator, n_bytes the number of bytes read
VarintLoop(buf, b0, res, n_bytes) ==
    IF b0 >= 128 /\ n_bytes <= 8
    THEN IF buf = << >> THEN VarintErr
         ELSE IF Unfinished(Tail(buf), Head(buf)) THEN VarintErr
         ELSE VarintLoop(Tail(buf), Head(buf), ShiftIn7(res, Head(buf)), n_bytes + 1)
    ELSE [ok |-> TRUE, v |-> res, rem |-> buf]

\* varint: [ok, v, rem], the value and the bytes of the buffer left unread
varint(buf) ==
    IF buf = << >> THEN [ok |-> FALSE, v |-> I64(0, 1), rem |-> buf]
    ELSE VarintLoop(Tail(buf), Head(buf), I64(Head(buf) % 128, 7), 1)

\* enum ColumnType: the kind of a column and the number of bytes of its value
ColumnType(kind, len) == [kind |-> kind, len |-> len]

\* the branches of column_type on the serial type v
serial_type(v) ==
    IF v = 0 THEN [ok |-> TRUE, typ |-> ColumnType("Null", 0)]
    ELSE IF v < 5 THEN [ok |-> TRUE, typ |-> ColumnType("Int", v)]
    ELSE IF v = 5 THEN [ok |-> TRUE, typ |-> ColumnType("Int", 6)]
    ELSE IF v = 6 THEN [ok |-> TRUE, typ |-> ColumnType("Int", 8)]
    ELSE IF v = 7 THEN [ok |-> TRUE, typ |-> ColumnType("Float", 8)]
    ELSE IF v = 8 THEN [ok |-> TRUE, typ |-> ColumnType("Int0", 0)]
    ELSE IF v = 9 THEN [ok |-> TRUE, typ |-> ColumnType("Int1", 0)]
    ELSE IF v > 12
    THEN IF v % 2 = 0 THEN [ok |-> TRUE, typ |-> ColumnType("Blob", (v - 12) \div 2)]
         ELSE [ok |-> TRUE, typ |-> ColumnType("Text", (v - 13) \div 2)]
    ELSE [ok |-> FALSE, typ |-> ColumnType("None", 0)]

\* column_type after its varint r: [ok, typ, rem]
typed(r) ==
    IF ~r.ok THEN [ok |-> FALSE, typ |-> ColumnType("None", 0), rem |-> r.rem]
    ELSE [ok |-> serial_type(BitsValue(r.v)).ok,
          typ |-> serial_type(BitsValue(r.v)).typ, rem |-> r.rem]

\* column_type: the serial type read as a varint from the buffer, and its ColumnType
column_type(buf) == typed(varint(buf))

RECURSIVE BytesBits(_)
\* the bits of a sequence of bytes, most significant first
BytesBits(bytes) ==
    IF bytes = << >> THEN << >> ELSE Bits(Head(bytes), 8) \o BytesBits(Tail(bytes))

\* `iN::from_be_bytes(..) as i64`: the bits of a signed integer widened to 64 bits
SignExtend(bits) == [i \in 1..(64 - Len(bits)) |-> Head(bits)] \o bits

\* Record::column, the arm of an integer column of int_len bytes: [ok, v]
IntColumn(int_len, column_bytes) ==
    CASE int_len \in {1, 2, 4, 8} -> [ok |-> TRUE, v |-> SignExtend(BytesBits(column_bytes))]
      [] int_len = 3 -> [ok |-> TRUE, v |-> SignExtend(BytesBits(<<0>> \o column_bytes))]
      [] int_len = 6 -> [ok |-> TRUE, v |-> SignExtend(BytesBits(<<0, 0>> \o column_bytes))]
      [] OTHER -> [ok |-> FALSE, v |-> I64(0, 1)]

-----------------------------------------------------------------------------
(* Opening a database (db.rs DB::new, db/db_info.rs DBInfo::new).  A file is
   [len, magic, page_size, text_encoding, page_type, cells]: its length in bytes,
   its first 16 bytes, the header fields at offsets 16 and 56, the first byte of
   the b-tree page header at offset 100, and the records of the cells of page 1
   in cell-pointer order.  A record is a sequence of columns
   [serial, text, num]: the serial type of its header and the stored value. *)

\* b"SQLite format 3"
MagicPrefix == <<83, 81, 76, 105, 116, 101, 32, 102, 111, 114, 109, 97, 116, 32, 51>>

\* slice::starts_with
starts_with(buf, prefix) ==
    Len(buf) >= Len(prefix) /\ SubSeq(buf, 1, Len(prefix)) = prefix

AnyEncoding(text_encoding) == TRUE

\* the condition of `ensure!(text_encoding == 1, ..)`
utf8(text_encoding) == text_encoding = 1

NewErr(msg) == [ok |-> FALSE, msg |-> msg]

\* the assignment of the decoded value s / num to the field of column col_i
schema_set(schema, col_i, s, num) ==
    CASE col_i = 1 -> [schema EXCEPT !.typ = s]
      [] col_i = 2 -> [schema EXCEPT !.name = s]
      [] col_i = 3 -> [schema EXCEPT !.tbl_name = s]
      [] col_i = 4 -> [schema EXCEPT !.rootpage = num]
      [] col_i = 5 -> [schema EXCEPT !.sql = s]
      [] OTHER -> schema

\* the bytes of a record header that hold serial type v (v < 2^14)
serial_bytes(v) == IF v < 128 THEN <<v>> ELSE <<128 + (v \div 128), v % 128>>

RECURSIVE schema_columns(_, _, _)
\* one column of the loop: t the result of column_type on its serial type, columns
\* the columns from this one on, n its number, partial the entry built so far
schema_column(t, columns, n, partial) ==
    IF ~t.ok THEN NewErr("get column type")
    ELSE IF t.typ.kind = "Int"
    THEN schema_columns(Tail(columns), n + 1, schema_set(partial, n, "", Head(columns).num))
    ELSE IF t.typ.kind = "Text"
    THEN schema_columns(Tail(columns), n + 1, schema_set(partial, n, Head(columns).text, 0))
    ELSE NewErr("Invalid column type in schema definition")

\* `while !record_header.is_empty()`: the columns of one schema cell, from col_i
schema_columns(record, col_i, schema) ==
    IF record = << >> THEN [ok |-> TRUE, schema |-> schema]
    ELSE IF ~(col_i < 6) THEN NewErr("schema definition can have only 5 colums")
    ELSE schema_column(column_type(serial_bytes(Head(record).serial)), record, col_i, schema)

RECURSIVE schema_cells(_, _)
\* after the columns of the first of the remaining cells, r their result and info
\* the DBInfo built so far
schema_cell(r, remaining, info) ==
    IF ~r.ok THEN r
    ELSE schema_cells(Tail(remaining), [info EXCEPT !.schemas = Append(@, r.schema)])

\* `for i_cell in 0..n_cells`
schema_cells(cells, db_info) ==
    IF cells = << >> THEN [ok |-> TRUE, db_info |-> db_info]
    ELSE schema_cell(schema_columns(Head(cells), 1, Schema("", "", "", 0, "")), cells, db_info)

\* DBInfo::new: [ok, db_info] or [ok, msg].  Of the header fields the result keeps
\* page_size and text_encoding; the others are copied the same way and read by
\* nothing but their accessors.
DBInfo_new(file) ==
    IF file.len < 100 THEN NewErr("failed to fill whole buffer")
    ELSE IF ~starts_with(file.magic, MagicPrefix) THEN NewErr("Incorrect database format")
    ELSE IF ~utf8(file.text_encoding) THEN NewErr("Only UTF-8 encoding is supported")
    ELSE IF file.len < 108 THEN NewErr("read page header (8 bytes)")
    ELSE IF ~(file.page_type = 13) THEN NewErr("First page shoud be a leaf table b-tree page")
    ELSE IF file.len < 108 + 2 * Len(file.cells) THEN NewErr("read cell pointers")
    ELSE IF file.cells # << >> /\ file.len < file.page_size THEN NewErr("read the cell content")
    ELSE schema_cells(file.cells,
                      [page_size |-> file.page_size, text_encoding |-> file.text_encoding,
                       schemas |-> << >>])

\* DB::new
DB_new(file) == DBInfo_new(file)

-----------------------------------------------------------------------------
(* The decoders as a state machine: one call of a decoding function of        *)
(* db/schema.rs, db/page.rs or db/db_info.rs on an input of the model          *)

InitDecode ==
    /\ rows = << >>
    /\ pages = << >>
    /\ schemas = << >>
    /\ bad = {}
    /\ short = {}
    /\ blobs = {}
    /\ InitPager

\* the call made and what it returned; nothing else changes
Call(o, r) ==
    /\ op.name = "open"
    /\ op' = o
    /\ out' = r
    /\ UNCHANGED <<rows, pages, bad, short, blobs, schemas, use_cache, page_cache>>

\* tables of the model: the DDL, the index of the column it declares INTEGER PRIMARY
\* KEY (-1 when it declares none) and the record body of a row (NULL is stored
\* in place of the row-id alias)
Shape(ddl, declared, record) == [ddl |-> ddl, declared |-> declared, record |-> record]
Shapes ==
    { Shape("CREATE TABLE t (id integer primary key, name text)", 0, <<CNull, CText("a")>>),
      Shape("CREATE TABLE t (name text, id integer primary key)", 1, <<CText("a"), CNull>>),
      Shape("CREATE TABLE t (name text, color text)", -1, <<CText("a"), CText("b")>>),
      Shape("CREATE TABLE t (n integer, color text)", -1, <<CInt(7), CText("b")>>) }

\* the primary key index parse_create_table reports for a DDL
PrimaryKeyOf(ddl) == parse_command(ddl).cmd.primary_key

\* TableLeafCell::column(i, pk) on a row of a table, pk taken from the parsed DDL
LeafColumn ==
    \E t \in Shapes, row_id \in 1..MaxRowId, i \in 0..1 :
        Call([name |-> "column", shape |-> t, row_id |-> row_id, i |-> i],
             TableLeafCell_column(TableLeafCell(row_id, t.record), i, PrimaryKeyOf(t.ddl)))

\* the 64-bit integers of the model: 2^k - 1 and 2^k, for every k below 63
Ones(k) == [i \in 1..64 |-> IF i > 64 - k THEN 1 ELSE 0]
PowerOfTwo(k) == [i \in 1..64 |-> IF i = 64 - k THEN 1 ELSE 0]
Integers64 == { Ones(k) : k \in 0..63 } \cup { PowerOfTwo(k) : k \in 0..62 }

RECURSIVE SigLen(_)
\* the number of bits of x from its first 1 bit on
SigLen(x) == IF x = << >> THEN 0 ELSE IF Head(x) = 1 THEN Len(x) ELSE SigLen(Tail(x))

\* the number of 7-bit groups that hold a value of sig significant bits
Groups(sig) == IF sig = 0 THEN 1 ELSE (sig + 6) \div 7

\* the format's encoding of x in n bytes of 7 value bits, the last without the
\* continuation bit
EncodeShort(x, n) ==
    [i \in 1..n |-> (IF i < n THEN 128 ELSE 0)
                      + BitsValue(SubSeq(x, 58 - 7 * (n - i), 64 - 7 * (n - i)))]

\* the format's encoding of x in 9 bytes: 8 bytes of 7 value bits, then 8 value bits
EncodeLong(x) ==
    [i \in 1..9 |-> IF i < 9 THEN 128 + BitsValue(SubSeq(x, 7 * i - 6, 7 * i))
                     ELSE BitsValue(SubSeq(x, 57, 64))]

\* the format's encoding of a 64-bit integer, in 1 to 9 bytes
Encode(x) == IF SigLen(x) > 56 THEN EncodeLong(x) ELSE EncodeShort(x, Groups(SigLen(x)))

\* bytes that follow a varint in a buffer
Tails == { << >>, <<5>>, <<133, 1>> }

\* buffers of n bytes that all have the continuation bit
Continued == { [i \in 1..n |-> c] : n \in 0..10, c \in {128, 129, 255} }

\* buffers whose first byte without the continuation bit is at position k
Stopped ==
    { [i \in 1..k |-> IF i < k THEN c ELSE d] \o t :
          k \in 1..9, c \in {128, 255}, d \in {0, 127}, t \in Tails }

\* varint on the encoding of an integer, followed by other bytes
VarintOfEncoded ==
    \E x \in Integers64, t \in Tails :
        Call([name |-> "varint", buf |-> Encode(x) \o t, encoded |-> TRUE, x |-> x, tail |-> t],
             varint(Encode(x) \o t))

\* varint on a buffer of bytes
VarintOfBytes ==
    \E buf \in Continued \cup Stopped :
        Call([name |-> "varint", buf |-> buf, encoded |-> FALSE], varint(buf))

\* column_type on the varint of a serial type
SerialType ==
    \E v \in 0..MaxSerial :
        Call([name |-> "column_type", v |-> v], column_type(Encode(I64(v, 8))))

\* Record::column on an integer column of 1, 2, 3, 4, 6 or 8 bytes
IntegerColumn ==
    \E n \in {1, 2, 3, 4, 6, 8}, first \in {0, 127, 128, 255}, other \in {0, 1, 255} :
        Call([name |-> "int", int_len |-> n,
              bytes |-> [i \in 1..n |-> IF i = 1 THEN first ELSE other]],
             IntColumn(n, [i \in 1..n |-> IF i = 1 THEN first ELSE other]))

PageSize == 4096

Column(serial, text, num) == [serial |-> serial, text |-> text, num |-> num]

\* rows of sqlite_schema as SQLite writes them: a table and an index with their
\* root pages, a view (rootpage 0, stored as the constant 0), an automatic index
\* (no sql), an object whose rootpage is stored as the constant 1, and a record of
\* six columns
SchemaRecords ==
    { <<Column(23, "table", 0), Column(25, "apples", 0), Column(25, "apples", 0),
        Column(1, "", TableRoot), Column(175, TableDDL, 0)>>,
      <<Column(23, "index", 0), Column(45, "idx_apples_color", 0), Column(25, "apples", 0),
        Column(1, "", IndexRoot), Column(107, IndexDDL, 0)>>,
      <<Column(21, "view", 0), Column(17, "v1", 0), Column(17, "v1", 0),
        Column(8, "", 0), Column(65, "CREATE VIEW v1 AS SELECT 1", 0)>>,
      <<Column(23, "index", 0), Column(53, "sqlite_autoindex_t_1", 0), Column(15, "t", 0),
        Column(1, "", 4), Column(0, "", 0)>>,
      <<Column(23, "table", 0), Column(15, "u", 0), Column(15, "u", 0),
        Column(9, "", 1), Column(59, "CREATE TABLE u (a text)", 0)>>,
      <<Column(23, "table", 0), Column(15, "w", 0), Column(15, "w", 0),
        Column(1, "", 5), Column(59, "CREATE TABLE w (a text)", 0), Column(1, "", 7)>> }

Magics ==
    { MagicPrefix \o <<0>>, MagicPrefix \o <<1>>,
      SubSeq(MagicPrefix, 1, 14) \o <<50, 0>>, [i \in 1..16 |-> 0] }

Files ==
    { [len |-> n, magic |-> g, page_size |-> PageSize, text_encoding |-> e,
       page_type |-> t, cells |-> c] :
        n \in {16, 100, PageSize}, g \in Magics, e \in 0..3, t \in {2, 5, 10, 13},
        c \in {<< >>} \cup { <<a>> : a \in SchemaRecords }
                     \cup { <<a, b>> : a \in SchemaRecords, b \in SchemaRecords } }

\* DB::new on a file
Open == \E file \in Files : Call([name |-> "new", file |-> file], DB_new(file))

-----------------------------------------------------------------------------
(* Records, cells and pages as bytes (db/page.rs Record::parse, Page::load,   *)
(* db/pager.rs Pager::load_page).  A subtraction on usize or u64 that goes     *)
(* below zero panics in a build with overflow checks and wraps in a build      *)
(* without them; the build is an input of the functions that subtract.         *)

Builds == {"checked", "wrapping"}

\* a - b on an unsigned machine integer: [panic, over, v]; a wrapped difference is
\* 2^64 - (b - a), above the length of every buffer, and is kept as over
unsigned_sub(a, b, build) ==
    IF a >= b THEN [panic |-> FALSE, over |-> FALSE, v |-> a - b]
    ELSE [panic |-> build = "checked", over |-> TRUE, v |-> 0]

RecordColumn(offset, typ) == [offset |-> offset, typ |-> typ]

ParsedRecord(ok, panic, columns, body) ==
    [ok |-> ok, panic |-> panic, columns |-> columns, body |-> body]

RECURSIVE RecordLoop(_, _, _, _)
\* one turn of the while loop of Record::parse after column_type returned t
RecordTurn(t, threshold, offset, columns) ==
    IF ~t.ok THEN ParsedRecord(FALSE, FALSE, << >>, << >>)
    ELSE RecordLoop(t.rem, threshold, offset + t.typ.len,
                    Append(columns, RecordColumn(offset, t.typ)))

\* `while payload.remaining() > payload_length - header_size`
RecordLoop(payload, threshold, offset, columns) ==
    IF Len(payload) > threshold
    THEN RecordTurn(column_type(payload), threshold, offset, columns)
    ELSE ParsedRecord(TRUE, FALSE, columns, payload)

\* Record::parse after `payload_length - header_size` gave the difference d
RecordFrom(payload, d) ==
    IF d.panic THEN ParsedRecord(FALSE, TRUE, << >>, << >>)
    ELSE IF d.over THEN ParsedRecord(TRUE, FALSE, << >>, payload)
    ELSE RecordLoop(payload, d.v, 0, << >>)

\* Record::parse after `header_size as usize - 1` gave header_size: a header size of
\* 2^64 - 1 (wrapped from 0) taken from a shorter payload_length wraps again, to
\* payload_length + 1
RecordHeader(payload, header_size, build) ==
    IF header_size.panic THEN ParsedRecord(FALSE, TRUE, << >>, << >>)
    ELSE IF header_size.over
    THEN RecordFrom(payload, [panic |-> build = "checked", over |-> FALSE,
                              v |-> Len(payload) + 1])
    ELSE RecordFrom(payload, unsigned_sub(Len(payload), header_size.v, build))

\* Record::parse after the varint r of the header size
RecordAfter(r, build) ==
    IF ~r.ok THEN ParsedRecord(FALSE, FALSE, << >>, << >>)
    ELSE RecordHeader(r.rem, unsigned_sub(BitsValue(r.v), 1, build), build)

\* Record::parse: [ok, panic, columns, body]
Record_parse(payload, build) == RecordAfter(varint(payload), build)

\* BytesMut::resize(new_len, 0): the buffer cut to new_len bytes, or extended to
\* new_len bytes with zeros
resize(cell, new_len) ==
    [i \in 1..new_len |-> IF i <= Len(cell) THEN cell[i] ELSE 0]

LeafCell(ok, panic, row_id, record) ==
    [ok |-> ok, panic |-> panic, row_id |-> row_id, record |-> record]

\* TableLeafCell::new
TableLeafCell_new(row_id, record) == LeafCell(record.ok, record.panic, row_id, record)

\* the TableLeaf arm of Page::load after the varints of payload_size and row_id
LeafCellAfter(payload_size, row_id, build) ==
    IF ~payload_size.ok \/ ~row_id.ok
    THEN LeafCell(FALSE, FALSE, 0, ParsedRecord(FALSE, FALSE, << >>, << >>))
    ELSE TableLeafCell_new(BitsValue(row_id.v),
                           Record_parse(resize(row_id.rem, BitsValue(payload_size.v)), build))

LeafCellFrom(payload_size, build) ==
    LeafCellAfter(payload_size, varint(payload_size.rem), build)

\* the TableLeaf arm of Page::load on the bytes of a cell
table_leaf_cell(cell, build) == LeafCellFrom(varint(cell), build)

\* PageType::try_from
PageType_try_from(value) ==
    CASE value = 2 -> [ok |-> TRUE, page_type |-> "IndexInterior"]
      [] value = 5 -> [ok |-> TRUE, page_type |-> "TableInterior"]
      [] value = 10 -> [ok |-> TRUE, page_type |-> "IndexLeaf"]
      [] value = 13 -> [ok |-> TRUE, page_type |-> "TableLeaf"]
      [] OTHER -> [ok |-> FALSE, page_type |-> "None"]

\* a file of pages is [magic, first, types]: its first 16 bytes, the byte at offset
\* 100 and, for each page from the second on, the first byte of the page; every
\* other byte reads as 0.  read_u8(file, pos): the byte at pos, -1 past the end
FileHeaderLen == 100
n_pages(file) == 1 + Len(file.types)
read_u8(file, pos) ==
    IF pos >= n_pages(file) * PageSize THEN -1
    ELSE IF pos < Len(file.magic) THEN file.magic[pos + 1]
    ELSE IF pos = FileHeaderLen THEN file.first
    ELSE IF pos >= PageSize /\ pos % PageSize = 0 THEN file.types[pos \div PageSize]
    ELSE 0

LoadedPage(ok, panic, start, page_type) ==
    [ok |-> ok, panic |-> panic, start |-> start, page_type |-> page_type]

\* Page::load as far as the page type, with the file positioned at start
Page_load(file, start) ==
    IF read_u8(file, start) = -1 THEN LoadedPage(FALSE, FALSE, start, "None")
    ELSE LoadedPage(PageType_try_from(read_u8(file, start)).ok, FALSE, start,
                    PageType_try_from(read_u8(file, start)).page_type)

\* `(num - 1) * self.page_size as u64`
page_start(num, build) == unsigned_sub(num, 1, build)

\* Pager::load_page after the subtraction: a wrapped page_start is past the end of
\* every file, so that the read of the page header fails
LoadAt(file, start) ==
    IF start.panic THEN LoadedPage(FALSE, TRUE, 0, "None")
    ELSE IF start.over THEN LoadedPage(FALSE, FALSE, 0, "None")
    ELSE Page_load(file, start.v * PageSize)

\* Pager::get_page without the cache (use_cache is false after Pager::new), which
\* is Pager::load_page
Pager_load_page(file, num, build) == LoadAt(file, page_start(num, build))

\* payloads of records: the header size, the serial types, the body
MaxHeader == 6
Bodies ==
    { << >>, <<1>>, <<1, 7>>, <<15, 97>>, <<1, 15, 7, 97>>, <<0, 15, 98>>,
      <<10, 7>>, <<129>> }
Payloads == { <<h>> \o b : h \in 0..MaxHeader, b \in Bodies } \cup { << >>, <<128>> }

\* Record::parse on a payload
RecordParse ==
    \E payload \in Payloads, build \in Builds :
        Call([name |-> "parse", payload |-> payload, build |-> build],
             Record_parse(payload, build))

\* cells of a table-leaf page: payload_size, row_id, and the bytes the page holds
\* for the payload (for a payload that spills: its first bytes and the number of
\* the overflow page)
MaxPayload == 9
Available ==
    { <<3, 1, 15, 7, 97>>, <<3, 1, 19, 7, 97, 98, 0, 0, 0, 9>>, <<2, 1, 7>>, <<1>> }
LeafCellBytes ==
    \E payload_size \in 0..MaxPayload, row_id \in 1..MaxRowId,
       available \in Available, build \in Builds :
        Call([name |-> "cell", payload_size |-> payload_size, row_id |-> row_id,
              available |-> available, build |-> build],
             table_leaf_cell(<<payload_size, row_id>> \o available, build))

\* files of one to three pages
MaxPage == 4
PageBytes == {0, 2, 5, 10, 13}
PagedFiles ==
    { [magic |-> g, first |-> f, types |-> t] :
        g \in { MagicPrefix \o <<0>> }, f \in {13, 0},
        t \in {<< >>} \cup { <<a>> : a \in PageBytes }
                     \cup { <<a, b>> : a \in PageBytes, b \in PageBytes } }

\* Pager::get_page on a pager just made
GetPage ==
    \E file \in PagedFiles, num \in 0..MaxPage, build \in Builds :
        Call([name |-> "get_page", file |-> file, num |-> num, build |-> build],
             Pager_load_page(file, num, build))

NextDecode ==
    \/ LeafColumn \/ VarintOfEncoded \/ VarintOfBytes \/ SerialType \/ IntegerColumn
    \/ Open \/ RecordParse \/ LeafCellBytes \/ GetPage

SpecDecode == InitDecode /\ [][NextDecode]_vars

-----------------------------------------------------------------------------
(* Properties of the decoders (SpecDecode) *)

\* C11: TableLeafCell::column(i, pk) returns the row-id exactly for the column the
\* DDL declares INTEGER PRIMARY KEY; for every other column, column 0 of a table
\* without a primary key included, it returns the value stored in the record
C11_RowIdOnlyForDeclaredKey ==
    op.name = "column" =>
        /\ out.ok
        /\ op.i = op.shape.declared => out.v = CInt(op.row_id)
        /\ op.i # op.shape.declared => out.v = op.shape.record[op.i + 1]

\* C17: for every x with 0 <= x < 2^63, varint on the format's encoding of x (1 to 9
\* bytes, the 9th carrying 8 value bits) returns x and consumes exactly the
\* encoding, also when other bytes follow it
C17_VarintRoundTrip ==
    (op.name = "varint" /\ op.encoded) =>
        (out.ok /\ out.v = op.x /\ out.rem = op.tail)

RECURSIVE FirstClear(_, _)
\* the position of the first byte of buf without the continuation bit, counted from
\* position k of the first byte of buf; 0 when there is none
FirstClear(buf, k) ==
    IF buf = << >> THEN 0
    ELSE IF Head(buf) < 128 THEN k
    ELSE FirstClear(Tail(buf), k + 1)

RECURSIVE Low7(_, _)
\* the low 7 bits of the first k bytes of buf, one after the other
Low7(buf, k) ==
    IF k = 0 THEN << >> ELSE Bits(Head(buf) % 128, 7) \o Low7(Tail(buf), k - 1)

\* C18: when the first byte without the continuation bit is at position k <= 8,
\* varint returns the low 7 bits of bytes 1..k joined big-endian, consumes exactly
\* k bytes and leaves the later bytes unread
C18_VarintShortForm ==
    (op.name = "varint" /\ FirstClear(op.buf, 1) \in 1..8) =>
        /\ out.ok
        /\ out.v = [i \in 1..(64 - 7 * FirstClear(op.buf, 1)) |-> 0]
                      \o Low7(op.buf, FirstClear(op.buf, 1))
        /\ out.rem = SubSeq(op.buf, FirstClear(op.buf, 1) + 1, Len(op.buf))

\* a varint of several bytes followed by other bytes was decoded
C18_Witness ==
    /\ op.name = "varint" /\ FirstClear(op.buf, 1) = 8
    /\ out.ok /\ out.rem # << >> /\ out.v[9] = 1

\* C19: varint returns an error and no value on the empty buffer, which it leaves
\* untouched, and on a buffer of at most 9 bytes that all have the continuation
\* bit, which it consumes whole
C19_VarintErrors ==
    (op.name = "varint" /\ Len(op.buf) <= 9 /\ FirstClear(op.buf, 1) = 0) =>
        (~out.ok /\ out.rem = << >>)

\* a buffer of 9 continuation bytes was refused
C19_Witness ==
    op.name = "varint" /\ Len(op.buf) = 9 /\ FirstClear(op.buf, 1) = 0 /\ ~out.ok

\* the ColumnType the file format gives the serial type v
FormatType(v) ==
    CASE v = 0 -> ColumnType("Null", 0)
      [] v \in 1..4 -> ColumnType("Int", v)
      [] v = 5 -> ColumnType("Int", 6)
      [] v = 6 -> ColumnType("Int", 8)
      [] v = 7 -> ColumnType("Float", 8)
      [] v = 8 -> ColumnType("Int0", 0)
      [] v = 9 -> ColumnType("Int1", 0)
      [] v >= 12 /\ v % 2 = 0 -> ColumnType("Blob", (v - 12) \div 2)
      [] v >= 13 /\ v % 2 = 1 -> ColumnType("Text", (v - 13) \div 2)
      [] OTHER -> ColumnType("None", 0)

\* C16: column_type succeeds for every serial type in 0..9 and from 12 on, and fails
\* for 10 and 11 only; on success it returns the kind and width the format gives
\* the serial type, 12 being the empty BLOB
C16_SerialTypes ==
    op.name = "column_type" =>
        /\ out.ok <=> op.v \notin {10, 11}
        /\ out.ok => out.typ = FormatType(op.v)

\* C20: Record::column decodes an integer stored in 3 or 6 bytes as a two's-complement
\* value, sign-extended: a stored value whose top bit is set is negative
C20_SignExtension ==
    (op.name = "int" /\ op.int_len \in {3, 6}) =>
        (out.ok /\ out.v = SignExtend(BytesBits(op.bytes)))

\* the three conditions on the file that opening requires
Accepted(file) ==
    /\ starts_with(file.magic, MagicPrefix)
    /\ file.text_encoding = 1
    /\ file.page_type = 13

\* C14: opening a database succeeds only if the file starts with the magic string,
\* its text encoding is 1 and the page header at byte 100 has type 13; if one of the
\* three fails the result is an error that carries no header and no catalog
C14_OpenRequiresValidFile ==
    op.name = "new" =>
        /\ out.ok => Accepted(op.file)
        /\ ~Accepted(op.file) => (~out.ok /\ DOMAIN out = {"ok", "msg"})

C14_Witness ==
    /\ op.name = "new"
    /\ out.ok
    /\ Len(out.db_info.schemas) = 2
    /\ out.db_info.text_encoding = 1

\* a row of sqlite_schema: three texts, a rootpage stored as an integer or as one of
\* the constants 0 and 1, and an sql text or NULL
SchemaRow(record) ==
    /\ Len(record) = 5
    /\ \A i \in 1..3 : FormatType(record[i].serial).kind = "Text"
    /\ FormatType(record[4].serial).kind \in {"Int", "Int0", "Int1"}
    /\ FormatType(record[5].serial).kind \in {"Text", "Null"}

\* C15: opening a file that passes the three checks and whose page 1 holds rows of
\* sqlite_schema succeeds, and the catalog has one entry per cell in cell-pointer
\* order, with the cell's type, name, table name and rootpage; rows whose rootpage is
\* a zero-width constant or whose sql is NULL included
C15_CatalogEntryPerCell ==
    (/\ op.name = "new"
     /\ Accepted(op.file)
     /\ op.file.len = op.file.page_size
     /\ \A i \in 1..Len(op.file.cells) : SchemaRow(op.file.cells[i])) =>
        /\ out.ok
        /\ Len(out.db_info.schemas) = Len(op.file.cells)
        /\ \A i \in 1..Len(op.file.cells) :
              /\ out.db_info.schemas[i].typ = op.file.cells[i][1].text
              /\ out.db_info.schemas[i].name = op.file.cells[i][2].text
              /\ out.db_info.schemas[i].tbl_name = op.file.cells[i][3].text
              /\ out.db_info.schemas[i].rootpage = op.file.cells[i][4].num

-----------------------------------------------------------------------------
(* The walk of Tree::load_page_cells in small steps.  The calls in progress  *)
(* are a stack of frames, the innermost first; a frame is [num, f, page, i,  *)
(* pc]: the page number and the filter the call was made with, the page it   *)
(* loaded, the index (from 1) of the cell its loop is at, and where it is:   *)
(* "load" before get_page, "cell" at the match on cell i, "after_probe" and  *)
(* "after_left" after the calls of an interior cell, "next" at the end of     *)
(* the body of the loop.  out is [ok, panic, done, cells, stack, fetched,     *)
(* loaded, probes]; probes counts the primary-key probes launched by index    *)
(* cells.                                                                     *)

Frame(num, f) ==
    [num |-> num, f |-> f, page |-> Page("None", << >>, NoPage), i |-> 0, pc |-> "load"]

Walking == op.name = "walk" /\ ~out.done
At(pc) == Walking /\ Head(out.stack).pc = pc
KindAt(kind) ==
    /\ At("cell")
    /\ Head(out.stack).i <= Len(Head(out.stack).page.cells)
    /\ Head(out.stack).page.cells[Head(out.stack).i].kind = kind
CellAt == Head(out.stack).page.cells[Head(out.stack).i]

SamePager == UNCHANGED <<rows, pages, bad, short, blobs, schemas, use_cache, page_cache, op>>

\* the frame of a call that stays where it is
NoReturn(stack) == stack

\* `Ok(())` at the end of load_page_cells: the call is over and its caller goes on
Return(stack) == Tail(stack)

\* the walk after a step that left the stack as it is in w
Walk(w) == out' = w

\* the innermost call goes on at pc, on cell i
Goto(pc, i) == Walk([out EXCEPT !.stack = <<[Head(@) EXCEPT !.pc = pc, !.i = i]>> \o Tail(@)])

\* the innermost call calls load_page_cells(num, f) and will go on at pc
Descend(pc, num, f) ==
    Walk([out EXCEPT !.stack = <<Frame(num, f), [Head(@) EXCEPT !.pc = pc]>> \o Tail(@)])

\* the same for the primary-key probe of an index cell
Probe(pc, row_id) ==
    Walk([out EXCEPT
            !.stack = <<Frame(op.page, [Head(out.stack).f EXCEPT
                                            !.col_i = Head(out.stack).f.primary_key_col_i,
                                            !.val = to_string(row_id)]),
                        [Head(@) EXCEPT !.pc = pc]>> \o Tail(@),
            !.probes = @ + 1])

\* an error leaves every call in progress through `?`
Abort(panic) ==
    Walk([out EXCEPT !.ok = FALSE, !.panic = panic, !.done = TRUE, !.stack = << >>,
                     !.cells = << >>])

\* the innermost call returns Ok(()); Tree::cells returns when it was the first
Returns ==
    Walk([out EXCEPT !.stack = Return(@), !.done = (Return(out.stack) = << >>)])

\* the pager as get_page sees it during the walk
WalkPager ==
    [bad |-> bad, short |-> short, blobs |-> blobs, use_cache |-> use_cache,
     page_cache |-> page_cache, fetched |-> out.fetched, loaded |-> out.loaded]

\* Tree::cells up to its call of load_page_cells
Start(filter) ==
    /\ op.name = "open"
    /\ op' = [NoOp EXCEPT !.name = "walk", !.page = TableRoot, !.filter = filter]
    /\ use_cache' = IF filter.some /\ filter.index_root_page # NoPage THEN TRUE ELSE use_cache
    /\ out' = [ok |-> TRUE, panic |-> FALSE, done |-> FALSE, cells |-> << >>,
               stack |-> <<Frame(IF filter.some /\ filter.index_root_page # NoPage
                                 THEN filter.index_root_page ELSE TableRoot, filter)>>,
               fetched |-> << >>, loaded |-> << >>, probes |-> 0]
    /\ UNCHANGED <<rows, pages, bad, short, blobs, schemas, page_cache>>

StepFilters ==
    {NoFilter} \cup { CellFilter(NoPage, PkCol, v, PkCol) : v \in RowIdVals }
               \cup { CellFilter(NoPage, ColorCol, v, PkCol) : v \in Vals }
               \cup { CellFilter(IndexRoot, ColorCol, v, PkCol) : v \in Vals }

StepStart == \E filter \in StepFilters : Start(filter)

\* the page get_page returned g for
Loaded(g) ==
    /\ use_cache' = g.pager.use_cache
    /\ page_cache' = g.pager.page_cache
    /\ IF ~g.ok
       THEN out' = [out EXCEPT !.ok = FALSE, !.done = TRUE, !.stack = << >>, !.cells = << >>,
                               !.fetched = g.pager.fetched, !.loaded = g.pager.loaded]
       ELSE out' = [out EXCEPT !.stack = <<[Head(@) EXCEPT !.pc = "cell", !.i = 1,
                                                             !.page = g.page]>> \o Tail(@),
                               !.fetched = g.pager.fetched, !.loaded = g.pager.loaded]

\* `self.pager.get_page(page)?`
StepLoad ==
    /\ At("load")
    /\ Loaded(get_page(WalkPager, Head(out.stack).num))
    /\ UNCHANGED <<rows, pages, bad, short, blobs, schemas, op>>

\* the loop over page.cells is over
StepEnd ==
    /\ At("cell")
    /\ Head(out.stack).i > Len(Head(out.stack).page.cells)
    /\ Returns
    /\ SamePager

\* the match arm Cell::TableLeaf
StepTableLeaf ==
    /\ KindAt("TableLeaf")
    /\ IF ~TableLeafArm(out, CellAt, Head(out.stack).f).ok
       THEN Abort(TableLeafArm(out, CellAt, Head(out.stack).f).panic)
       ELSE Walk([out EXCEPT !.cells = TableLeafArm(out, CellAt, Head(out.stack).f).cells,
                             !.stack = <<[Head(@) EXCEPT !.pc = "next"]>> \o Tail(@)])
    /\ SamePager

\* the filter is a search by row_id
ByRowId(f) == f.some /\ f.col_i = f.primary_key_col_i

\* the match arm Cell::TableInterior, up to the call on the left child
StepTableInterior ==
    /\ KindAt("TableInterior")
    /\ IF ByRowId(Head(out.stack).f)
       THEN IF ~ParseU64(Head(out.stack).f.val).ok THEN Abort(FALSE)
            ELSE IF CellAt.row_id >= ParseU64(Head(out.stack).f.val).v
            THEN Descend("after_left", CellAt.left_child_page, Head(out.stack).f)
            ELSE Goto("after_left", Head(out.stack).i)
       ELSE Descend("after_left", CellAt.left_child_page, Head(out.stack).f)
    /\ SamePager

\* the match arm Cell::IndexLeaf
StepIndexLeaf ==
    /\ KindAt("IndexLeaf")
    /\ IF ~Head(out.stack).f.some THEN Goto("next", Head(out.stack).i)
       ELSE IF ~IndexCell_key(CellAt).ok THEN Abort(IndexCell_key(CellAt).panic)
       ELSE IF Head(out.stack).f.val # to_string(IndexCell_key(CellAt).v)
       THEN Goto("next", Head(out.stack).i)
       ELSE IF ~IndexCell_row_id(CellAt).ok THEN Abort(IndexCell_row_id(CellAt).panic)
       ELSE Probe("next", IndexCell_row_id(CellAt).v)
    /\ SamePager

\* the match arm Cell::IndexInterior, up to the primary-key probe
StepIndexInterior ==
    /\ KindAt("IndexInterior")
    /\ IF ~Head(out.stack).f.some THEN Goto("next", Head(out.stack).i)
       ELSE IF ~IndexCell_key(CellAt).ok THEN Abort(IndexCell_key(CellAt).panic)
       ELSE IF ~StrGe(to_string(IndexCell_key(CellAt).v), Head(out.stack).f.val)
       THEN Goto("next", Head(out.stack).i)
       ELSE IF to_string(IndexCell_key(CellAt).v) # Head(out.stack).f.val
       THEN Goto("after_probe", Head(out.stack).i)
       ELSE IF ~IndexCell_row_id(CellAt).ok THEN Abort(IndexCell_row_id(CellAt).panic)
       ELSE Probe("after_probe", IndexCell_row_id(CellAt).v)
    /\ SamePager

\* the arm Cell::IndexInterior after the probe: the call on the left child
StepAfterProbe ==
    /\ At("after_probe")
    /\ Descend("after_left", CellAt.left_child_page, Head(out.stack).f)
    /\ SamePager

\* `break` of an interior arm: the key of the cell is behind the searched one
Breaks(cell, f) ==
    IF cell.kind = "TableInterior"
    THEN ByRowId(f) /\ cell.row_id > ParseU64(f.val).v
    ELSE StrGt(to_string(IndexCell_key(cell).v), f.val)

\* an interior arm after the left child: break, or the call on rightmost_pointer
\* after the last cell
StepAfterLeft ==
    /\ At("after_left")
    /\ IF Breaks(CellAt, Head(out.stack).f) THEN Returns
       ELSE IF /\ Head(out.stack).i = Head(out.stack).page.n_cells
               /\ Head(out.stack).page.rightmost_pointer # NoPage
       THEN Descend("next", Head(out.stack).page.rightmost_pointer, Head(out.stack).f)
       ELSE Goto("next", Head(out.stack).i)
    /\ SamePager

\* the loop goes to the next cell
StepNext ==
    /\ At("next")
    /\ Goto("cell", Head(out.stack).i + 1)
    /\ SamePager

\* a well-formed database just opened
InitStep == InitWalk

NextStep ==
    \/ StepStart \/ StepLoad \/ StepEnd \/ StepTableLeaf \/ StepTableInterior
    \/ StepIndexLeaf \/ StepIndexInterior \/ StepAfterProbe \/ StepAfterLeft \/ StepNext

SpecStep == InitStep /\ [][NextStep]_vars

\* the program runs on as long as it has a step to take
SpecStepFair == SpecStep /\ WF_vars(NextStep)

-----------------------------------------------------------------------------
(* Properties of CREATE TABLE (SpecParse) *)

\* the text s holds the text w
HasWord(s, w) == \E i \in 1..(Len(s) - Len(w) + 1) : SubSeq(s, i, i + Len(w) - 1) = w

RECURSIVE Definitions(_)
\* the column definitions of a list written with commas
Definitions(text) ==
    IF IndexOf(text, ",", 1) = 0 THEN <<text>>
    ELSE <<SubSeq(text, 1, IndexOf(text, ",", 1) - 1)>>
         \o Definitions(Drop(text, IndexOf(text, ",", 1)))

\* the definitions of the list that hold the word primary, in any letter case
Primaries(text) ==
    { i \in 1..Len(Definitions(text)) : HasWord(ToLowercase(Definitions(text)[i]), "primary") }

\* C28: parsing CREATE TABLE reports as primary key the (0-based) index of the column
\* whose definition holds the word primary in any letter case, and 0 when no
\* definition holds it
C28_PrimaryKeyAnyCase ==
    (op.name = "create_table" /\ out.ok) =>
        /\ Primaries(op.proj.text) = {} => out.cmd.primary_key = 0
        /\ \A i \in Primaries(op.proj.text) : out.cmd.primary_key = i - 1

-----------------------------------------------------------------------------
(* Properties of the probes (SpecWalk) *)

\* no key of the index-interior page p is greater than the value v
NoKeyExceeds(p, v) ==
    \A i \in 1..Len(pages[p].cells) : ~StrGt(to_string(pages[p].cells[i].record[1]), v)

\* C22: when an index probe scans an index-interior page none of whose keys exceeds
\* the target (all are less than or equal to it), the walker descends into the
\* page's rightmost_pointer
C22_RightmostWhenNoKeyExceeds ==
    op.name = "index" =>
        \A k \in 1..Len(out.fetched) :
            (/\ pages[out.fetched[k]].page_type = "IndexInterior"
             /\ NoKeyExceeds(out.fetched[k], op.filter.val)) =>
                \E j \in 1..Len(out.fetched) :
                    j > k /\ out.fetched[j] = pages[out.fetched[k]].rightmost_pointer

\* the table-leaf cells of the rows whose color, in lowercase, is v
LowercaseMatches(v) ==
    LET Match(c) == ToLowercase(to_string(c.record[ColorCol + 1])) = v
    IN  SelectSeq(AllCells, Match)

\* C23: an index probe compares the lowercase rendering of each key with the filter
\* value, so the lowercase of a stored key (red for Red) finds the rows of that key,
\* as the filtered table scan does (here with no interior page left without cells)
C23_IndexKeysLowercased ==
    (op.name = "index" /\ NoEmptyInterior /\ op.filter.val = ToLowercase(op.filter.val)) =>
        (out.ok /\ Range(LowercaseMatches(op.filter.val)) \subseteq Range(out.cells))

\* C24: a primary-key probe parses the target as an integer and compares it with the
\* row-ids as numbers on interior and leaf pages alike: the cells returned are those
\* whose row-id is the number written, also when it is written 02, whatever the
\* depth of the tree (here with no interior page left without cells)
C24_PkProbeNumeric ==
    (op.name \in {"pk", "pk0"} /\ NoEmptyInterior) =>
        (out.ok /\ out.cells = PkExpected(op.filter.val))

\* the cells a plan has to return: the rows whose row-id is the number written for a
\* primary-key probe, the rows whose lowercase color is the value otherwise
Matching ==
    IF op.filter.col_i = PkCol THEN PkExpected(op.filter.val)
    ELSE LowercaseMatches(op.filter.val)

\* C29: for every filter and plan each matching row is once in the list returned by
\* Tree::cells: no table-leaf cell is appended twice and rows with equal index keys
\* are all there (here with no interior page left without cells and a value in
\* lowercase, as Command::select_columns passes it)
C29_EachMatchOnce ==
    (/\ op.name \in {"filter", "pk", "index"}
     /\ NoEmptyInterior
     /\ op.filter.val = ToLowercase(op.filter.val)) =>
        /\ out.ok
        /\ \A i, j \in 1..Len(out.cells) : out.cells[i] = out.cells[j] => i = j
        /\ Range(out.cells) = Range(Matching)

-----------------------------------------------------------------------------
(* Properties of records, cells and pages as bytes (SpecDecode) *)

\* the header size a payload starts with (payloads of the model start with a
\* one-byte varint)
HeaderSizeOf(payload) == IF payload = << >> THEN -1 ELSE Head(payload)

\* C21: Record::parse returns an error, without a panic and without a record, when
\* the header size at the start of the payload is larger than the length of the
\* payload, and when it is 0
C21_MalformedHeaderSize ==
    (/\ op.name = "parse"
     /\ HeaderSizeOf(op.payload) < 128
     /\ (HeaderSizeOf(op.payload) = 0 \/ HeaderSizeOf(op.payload) > Len(op.payload))) =>
        (~out.ok /\ ~out.panic)

\* C27: the TableLeaf arm of Page::load fails for a cell whose payload_size is
\* larger than the number of bytes the page holds for the payload
C27_SpilledPayloadIsError ==
    (op.name = "cell" /\ op.payload_size > Len(op.available)) => (~out.ok /\ ~out.panic)

\* the first byte of the b-tree page header of page num of a file
HeaderByte(file, num) == IF num = 1 THEN file.first ELSE file.types[num - 1]

\* C26: get_page(n) on a file whose page n has a b-tree page header decodes the page
\* of the header at offset (n - 1) * page_size for n >= 2 and at offset 100 for
\* n = 1
C26_PageHeaderOffset ==
    (/\ op.name = "get_page"
     /\ op.num \in 1..n_pages(op.file)
     /\ PageType_try_from(HeaderByte(op.file, op.num)).ok) =>
        /\ out.ok
        /\ out.page_type = PageType_try_from(HeaderByte(op.file, op.num)).page_type
        /\ out.start = IF op.num = 1 THEN FileHeaderLen ELSE (op.num - 1) * PageSize

-----------------------------------------------------------------------------
(* Properties of the walk in small steps (SpecStep, SpecStepFair) *)

\* the walk in small steps ends as Tree::cells computes it in one step
StepsAgree ==
    (op.name = "walk" /\ out.done) =>
        /\ out.ok = Tree_cells(FreshPager, op.page, op.filter).ok
        /\ out.cells = Tree_cells(FreshPager, op.page, op.filter).cells
        /\ out.fetched = Tree_cells(FreshPager, op.page, op.filter).pager.fetched

\* C25: on every well-formed pair of table b-tree and index b-tree and for every
\* filter, the walk Tree::cells starts comes to its end, the primary-key probes the
\* index cells launch from the table root included
C25_WalkTerminates == (op.name = "walk") ~> (op.name = "walk" /\ out.done)

\* an index walk that launched primary-key probes through an interior table page and
\* came to its end with the rows of both probes
C25_Witness ==
    /\ op.name = "walk"
    /\ out.done /\ out.ok
    /\ op.filter.index_root_page = IndexRoot
    /\ pages[TableRoot].page_type = "TableInterior"
    /\ pages[IndexRoot].page_type = "IndexInterior"
    /\ out.probes >= 2
    /\ Len(out.cells) >= 2

-----------------------------------------------------------------------------
(* Properties of a session (SpecSession) *)

\* what the call returns on an engine just opened on the same file
OnFreshEngine == DB_execute(schemas, OpenPager, op.sql)

\* C30: whatever calls of DB::execute came before it on the engine, a call returns
\* the rows or the error it returns on an engine just opened, and no call changes
\* the schema catalog
C30_IndependentOfHistory ==
    /\ [](op.name = "exec" =>
            /\ out.ok = OnFreshEngine.ok
            /\ out.panic = OnFreshEngine.panic
            /\ out.rows = OnFreshEngine.rows)
    /\ [][schemas' = schemas]_vars

\* a full scan that returned every row after an index-assisted query, with pages taken
\* from the cache that query left
C30_Witness ==
    /\ op.name = "exec"
    /\ op.proj = SelectAll /\ op.where = NoWhere /\ op.table = "apples"
    /\ out.ok /\ Len(out.rows) = MaxRows
    /\ Len(out.loaded) < Len(out.fetched)
====
